---- MODULE Spec2Model ----
(***************************************************************************)
(* A model of the RAG pipeline's ingest and query request handlers and of   *)
(* the service functions they call (chunkText, embedChunks, upsertVectors,  *)
(* searchVectors, deleteDocumentVectors, generateAnswer).  The remote       *)
(* services (PDF extraction, embedding API, vector store, generation API)   *)
(* are the environment: each remote call's outcome is chosen with \E.       *)
(*                                                                         *)
(* Text is a sequence of characters over three classes: "a" (a character    *)
(* of the base64 alphabet that is not whitespace), " " (whitespace) and    *)
(* "!" (a character outside the base64 alphabet).  An optional field of a   *)
(* request body is <<>> when absent and <<v>> when given.  A vector is      *)
(* [len |-> its length, finite |-> whether all its values are finite].      *)
(***************************************************************************)
EXTENDS Integers, Sequences, FiniteSets, TLC

----------------------------------------------------------------------------
(* Program constants *)

VECTOR_SIZE == 768
MAX_BATCH_SIZE == 10
MAX_RETRIES == 3
BATCH_SIZE == 100
MaxIdLength == 255
DocIdMaxLength == 200
ChunkSizeMinimum == 100
ChunkSizeMaximum == 2000
ChunkOverlapMaximum == 500
DefaultChunkSize == 800
DefaultOverlap == 100
maxSize == 50 * 1024 * 1024
DefaultTopK == 5
MaxTopK == 50
MaxQuestionLength == 1000
GenerateMaxRetries == 3
GenerateRetryDelay == 1000
ConfidenceFloor == 350

(* Bounds of the model *)

\* Requests handled one after the other in a behaviour.
MaxRequests == 2
\* Iterations of one chunking loop the model follows; a loop still running
\* after that many iterations is left where it is.
MaxIter == 12
\* Hits in a call of generateAnswer on its own.
MaxHits == 3
\* QdrantClient objects created in a behaviour, the one of the startup
\* included.
MaxClients == 2

----------------------------------------------------------------------------
(* Strings *)

Min(a, b) == IF a < b THEN a ELSE b
Max(a, b) == IF a > b THEN a ELSE b

IsSpace(c) == c = " "

RECURSIVE TrimLeft(_)
TrimLeft(s) == IF s # <<>> /\ IsSpace(Head(s)) THEN TrimLeft(Tail(s)) ELSE s

RECURSIVE TrimRight(_)
TrimRight(s) ==
    IF s # <<>> /\ IsSpace(s[Len(s)])
    THEN TrimRight(SubSeq(s, 1, Len(s) - 1))
    ELSE s

\* String.prototype.trim
Trim(s) == TrimRight(TrimLeft(s))

\* String.prototype.substring(a, b): both ends clamped to 0..length, swapped
\* when a > b.
Substring(s, a, b) ==
    LET ca == Max(0, Min(a, Len(s)))
        cb == Max(0, Min(b, Len(s)))
    IN  SubSeq(s, Min(ca, cb) + 1, Max(ca, cb))

\* The length of Array.prototype.slice(a, b) of an array of n elements: a
\* negative index counts from the end, both are clamped to 0..n.
SliceLen(n, a, b) ==
    LET from == IF a < 0 THEN Max(n + a, 0) ELSE Min(a, n)
        to   == IF b < 0 THEN Max(n + b, 0) ELSE Min(b, n)
    IN  Max(to - from, 0)

\* v || d on an optional number: the default also replaces a given 0.
OrDefault(opt, d) == IF opt = <<>> \/ opt[1] = 0 THEN d ELSE opt[1]

\* text.split(/\s+/): the words between the runs of whitespace; a leading or
\* trailing run leaves an empty word at that end.
RECURSIVE SplitWords(_, _, _)
SplitWords(s, cur, inRun) ==
    IF s = <<>> THEN <<cur>>
    ELSE IF IsSpace(Head(s))
         THEN IF inRun THEN SplitWords(Tail(s), cur, TRUE)
              ELSE <<cur>> \o SplitWords(Tail(s), <<>>, TRUE)
         ELSE SplitWords(Tail(s), Append(cur, Head(s)), FALSE)

Split(s) == SplitWords(s, <<>>, FALSE)

\* words.join(" ")
RECURSIVE Join(_)
Join(ws) ==
    IF ws = <<>> THEN <<>>
    ELSE IF Len(ws) = 1 THEN ws[1]
    ELSE ws[1] \o <<" ">> \o Join(Tail(ws))

\* String.prototype.includes
Includes(q, ph) ==
    \E k \in 1..(Len(q) - Len(ph) + 1) : SubSeq(q, k, k + Len(ph) - 1) = ph

----------------------------------------------------------------------------
(* Chunker: one iteration of the window loop *)

\* The text of the token window starting at token i: the character span
\* proportional to the window's token span, trimmed.  (i / n) * L is an
\* exact floor here: for n, L < 22 the floating-point product floors to the
\* same integer.
TokenWindowText(text, ntok, i, chunkSize) ==
    LET k == SliceLen(ntok, i, i + chunkSize)
    IN  Trim(Substring(text, (i * Len(text)) \div ntok,
                             ((i + k) * Len(text)) \div ntok))

\* words.slice(a, b) for a, b that may be negative or past the end.
WordSlice(words, a, b) ==
    LET n    == Len(words)
        from == IF a < 0 THEN Max(n + a, 0) ELSE Min(a, n)
        to   == IF b < 0 THEN Max(n + b, 0) ELSE Min(b, n)
    IN  SubSeq(words, from + 1, to)

\* The text of the word window starting at word i (simpleWordChunking).
WordWindowText(text, i, chunkSize) ==
    Trim(Join(WordSlice(Split(text), i, i + chunkSize)))

----------------------------------------------------------------------------
(* Inputs *)

Rep(c, n) == [k \in 1..n |-> c]

Opt(S) == {<<>>} \cup {<<v>> : v \in S}

DocD == <<"a">>
DocE == <<"a", "a">>

\* pdf_base64: the string's characters and the number of bytes it decodes to.
PdfOk    == [chars |-> <<"a", "a">>, bytes |-> 1]
PdfHuge  == [chars |-> <<"a", "a">>, bytes |-> maxSize + 1]
PdfBlank == [chars |-> <<" ">>, bytes |-> 0]
PdfBadCh == [chars |-> <<"a", "!">>, bytes |-> 1]
PdfEmpty == [chars |-> <<>>, bytes |-> 0]

MkBody(d, p, o, cs, co) ==
    [doc_id |-> d, pdf_base64 |-> p, overwrite |-> o,
     chunk_size |-> cs, chunk_overlap |-> co]

\* Bodies the schema or the handler's validation rejects.
BadBodies ==
    { MkBody(<<>>, <<>>, <<>>, <<>>, <<>>),
      MkBody(<<>>, <<PdfOk>>, <<>>, <<>>, <<>>),
      MkBody(<< <<>> >>, <<PdfOk>>, <<>>, <<>>, <<>>),
      MkBody(<< <<" ">> >>, <<PdfOk>>, <<TRUE>>, <<>>, <<>>),
      MkBody(<< Rep("a", DocIdMaxLength + 1) >>, <<PdfOk>>, <<>>, <<>>, <<>>),
      MkBody(<<DocD>>, <<>>, <<>>, <<>>, <<>>),
      MkBody(<<DocD>>, <<PdfEmpty>>, <<>>, <<>>, <<>>),
      MkBody(<<DocD>>, <<PdfBlank>>, <<TRUE>>, <<>>, <<>>),
      MkBody(<<DocD>>, <<PdfBadCh>>, <<TRUE>>, <<>>, <<>>),
      MkBody(<<DocD>>, <<PdfOk>>, <<>>, <<ChunkSizeMinimum - 1>>, <<>>),
      MkBody(<<DocD>>, <<PdfOk>>, <<>>, <<>>, <<ChunkOverlapMaximum + 1>>) }

\* chunk_size and chunk_overlap as the schema accepts them.
ChunkOptions ==
    { <<<<>>, <<>>>>,
      <<<<ChunkSizeMinimum>>, <<ChunkSizeMinimum - 1>>>>,
      <<<<ChunkSizeMinimum>>, <<0>>>>,
      <<<<ChunkSizeMinimum>>, <<ChunkOverlapMaximum>>>> }

GoodBodies ==
    { MkBody(<<DocD>>, <<p>>, o, c[1], c[2]) :
        p \in {PdfOk, PdfHuge}, o \in Opt(BOOLEAN), c \in ChunkOptions }
    \cup { MkBody(<<DocE>>, <<PdfOk>>, <<TRUE>>, <<>>, <<>>) }

Bodies == BadBodies \cup GoodBodies

\* Pages as the extraction service returns them; ntok is the number of
\* tokens the tokenizer finds in the page's text.
PageBlank(n) == [page |-> n, text |-> <<" ", " ">>, ntok |-> 1]
PageShort(n) == [page |-> n, text |-> <<"a", " ", "a">>, ntok |-> 2]
PageLong(n)  ==
    [page |-> n,
     text |-> <<"a", " ", "a", " ", "a", " ", "a", " ", "a", " ", "a">>,
     ntok |-> 11]

PageLists ==
    { <<>>,
      <<PageBlank(1)>>,
      <<PageShort(1)>>,
      <<PageShort(1), PageBlank(2)>>,
      <<PageLong(1)>> }

\* What the extraction service answers: an HTTP error, no connection, or a
\* JSON body with pages.
ExtractReplies ==
    { [kind |-> "http", status |-> 500, statusText |-> "Internal Server Error",
       pages |-> <<>>],
      [kind |-> "http", status |-> 507, statusText |-> "Insufficient storage",
       pages |-> <<>>],
      [kind |-> "connect", status |-> 0, statusText |-> "", pages |-> <<>>] }
    \cup { [kind |-> "json", status |-> 200, statusText |-> "OK", pages |-> ps] :
             ps \in PageLists }

----------------------------------------------------------------------------
(* State *)

\* The vector sizes of the collection the startup finds or creates.
CollectionSizes == {VECTOR_SIZE, VECTOR_SIZE \div 2}

VARIABLES
    store,          \* the collection: the points the vector store holds
    nReq,           \* requests received so far
    pc,             \* where the current request's handler is
    body,           \* the current ingest request's body
    store0,         \* the collection as it was when the request arrived
    calls,          \* the service calls the handler has made, in order
    documentExists, \* ingest: the flag the existence probe sets
    pages,          \* ingest: the extracted pages
    pageIx,         \* ingest: the page the chunking loop is at
    allChunks,      \* ingest: the chunks of the pages chunked so far
    loop,           \* chunkText's loop state for the current page
    embedded,       \* embedChunks: the chunks embedded so far
    attempt,        \* embedTextsWithGemini: the attempt number
    upsertAt,       \* upsertVectors: the index the batch loop is at
    thrown,         \* the message of the error being handled
    resp,           \* the ingest response, once sent
    query,          \* the current query request's body
    queryEmbedding, \* query: the vector embedQuery returned
    searchResults,  \* query: what searchVectors returned
    hits,           \* query: the search results that passed min_score
    qresp,          \* the query response, once sent
    client,         \* the vector store client the module holds: the number
                    \* of the QdrantClient object assigned to it
    collection,     \* the vector size the collection is configured with
    context         \* query: what buildContext made of the surviving hits

vars == <<store, nReq, pc, body, store0, calls, documentExists, pages, pageIx,
          allChunks, loop, embedded, attempt, upsertAt, thrown, resp,
          query, queryEmbedding, searchResults, hits, qresp, client,
          collection, context>>

qvars == <<query, queryEmbedding, searchResults, hits, qresp>>

NoBody == MkBody(<<>>, <<>>, <<>>, <<>>, <<>>)
\* The state of chunkText's loop; at holds, for every chunk pushed, the index
\* i of the window it was cut from.
NoLoop ==
    [mode |-> "none", n |-> 0, i |-> 0, idx |-> 0, iter |-> 0, chunks |-> <<>>,
     at |-> <<>>]
NoResp ==
    [status |-> 0, success |-> FALSE, code |-> "", error |-> "",
     total_chunks |-> 0, total_pages |-> 0]

NoQuery == [question |-> <<>>, top_k |-> <<>>, doc_id |-> <<>>, min_score |-> <<>>]
\* A context: its source blocks, each with the hit it was made of and its
\* number of characters, and the number of characters of the whole string.
NoContext == [blocks |-> <<>>, length |-> 0]
NoAnswer ==
    [status |-> 0, success |-> FALSE, code |-> "", text |-> "", sources |-> <<>>,
     confidence |-> 0, total_results |-> 0]

Terminal == {"done", "failed"}
QTerminal == {"qdone", "qfailed"}

\* The request's own fields, as the handler reads them.
doc_id == body.doc_id[1]
overwrite == body.overwrite # <<>> /\ body.overwrite[1]

\* The points of one document.
PointsOf(s, d) == {p \in s : p.doc_id = d}

Init ==
    /\ store = {}
    /\ nReq = 0
    /\ pc = "idle"
    /\ body = NoBody
    /\ store0 = {}
    /\ calls = <<>>
    /\ documentExists = FALSE
    /\ pages = <<>>
    /\ pageIx = 0
    /\ allChunks = <<>>
    /\ loop = NoLoop
    /\ embedded = <<>>
    /\ attempt = 0
    /\ upsertAt = 0
    /\ thrown = ""
    /\ resp = NoResp
    /\ query = NoQuery
    /\ queryEmbedding = [len |-> 0, finite |-> TRUE]
    /\ searchResults = <<>>
    /\ hits = <<>>
    /\ qresp = NoAnswer
    /\ client = 1
    /\ context = NoContext
    /\ collection \in CollectionSizes

----------------------------------------------------------------------------
(* Responses *)

Respond(status, code, error) ==
    /\ resp' = [status |-> status, success |-> FALSE, code |-> code,
                error |-> error, total_chunks |-> 0, total_pages |-> 0]
    /\ pc' = "failed"

\* The keywords the handlers look for in an error's message, and those of
\* them a message includes.
Keywords == {"embedding", "EMBEDDING", "storage", "STORAGE", "PDF", "parse", "upsert"}

Words(msg) == {w \in Keywords : Includes(msg, w)}

\* The outer catch's error code, from the words of the error's message.
ErrorCode(msg) ==
    IF Words(msg) \cap {"embedding", "EMBEDDING"} # {} THEN "EMBEDDING_ERROR"
    ELSE IF Words(msg) \cap {"storage", "STORAGE"} # {} THEN "STORAGE_ERROR"
    ELSE IF Words(msg) \cap {"PDF", "parse"} # {} THEN "PDF_PROCESSING_ERROR"
    ELSE "INGESTION_ERROR"

\* Whether the outer catch runs its emergency cleanup for this message.
NeedsEmergencyCleanup(msg) == Words(msg) \cap {"storage", "upsert"} # {}

----------------------------------------------------------------------------
(* POST /ingest: validation *)

\* The route's body schema.
SchemaAccepts(b) ==
    /\ b.doc_id # <<>>
    /\ Len(b.doc_id[1]) >= 1
    /\ Len(b.doc_id[1]) <= DocIdMaxLength
    /\ b.pdf_base64 # <<>>
    /\ Len(b.pdf_base64[1].chars) >= 1
    /\ b.chunk_size # <<>> =>
         b.chunk_size[1] >= ChunkSizeMinimum /\ b.chunk_size[1] <= ChunkSizeMaximum
    /\ b.chunk_overlap # <<>> =>
         b.chunk_overlap[1] >= 0 /\ b.chunk_overlap[1] <= ChunkOverlapMaximum

\* /^[A-Za-z0-9+/]*={0,2}$/ on the three character classes.
IsBase64(chars) == \A k \in 1..Len(chars) : chars[k] = "a"

\* A request arrives: the handler's locals are fresh.
Receive ==
    /\ pc \in Terminal \cup QTerminal \cup {"idle"}
    /\ nReq < MaxRequests
    /\ \E b \in Bodies : body' = b
    /\ nReq' = nReq + 1
    /\ pc' = "validate"
    /\ store0' = store
    /\ calls' = <<>>
    /\ documentExists' = FALSE
    /\ pages' = <<>>
    /\ pageIx' = 0
    /\ allChunks' = <<>>
    /\ loop' = NoLoop
    /\ embedded' = <<>>
    /\ attempt' = 0
    /\ upsertAt' = 0
    /\ thrown' = ""
    /\ resp' = NoResp
    /\ query' = NoQuery
    /\ queryEmbedding' = [len |-> 0, finite |-> TRUE]
    /\ searchResults' = <<>>
    /\ hits' = <<>>
    /\ qresp' = NoAnswer
    /\ context' = NoContext
    /\ UNCHANGED <<store, client, collection>>

\* The schema check and the handler's own checks of doc_id and pdf_base64.
Validate ==
    /\ pc = "validate"
    /\ IF ~SchemaAccepts(body)
         THEN Respond(400, "VALIDATION_ERROR", "Validation failed")
       ELSE IF Trim(doc_id) = <<>>
         THEN Respond(400, "INVALID_DOC_ID", "doc_id cannot be empty")
       ELSE IF Trim(body.pdf_base64[1].chars) = <<>>
         THEN Respond(400, "INVALID_PDF_DATA", "pdf_base64 cannot be empty")
       ELSE IF ~IsBase64(body.pdf_base64[1].chars)
         THEN Respond(400, "INVALID_BASE64", "Invalid base64 format")
       ELSE pc' = "probe" /\ UNCHANGED resp
    /\ UNCHANGED <<store, nReq, body, store0, calls, documentExists, pages,
                   pageIx, allChunks, loop, embedded, attempt, upsertAt, thrown>>
    /\ UNCHANGED qvars
    /\ UNCHANGED <<client, collection, context>>

\* searchVectors(vector, topK, docId) on the store: at most topK points of
\* the document.
SearchHits(s, topK, d) ==
    IF topK = 1
    THEN IF PointsOf(s, d) = {} THEN {{}} ELSE {{p} : p \in PointsOf(s, d)}
    ELSE {h \in SUBSET PointsOf(s, d) :
            Cardinality(h) = Min(topK, Cardinality(PointsOf(s, d)))}

\* initQdrant(): a new QdrantClient is assigned to client before the
\* connection is tested.
initQdrant(c) == c + 1

\* ensureCollectionExists(): the collection is found, or the lookup throws
\* and initQdrant() is called, which connects or throws in its turn.
Lookups(c) ==
    IF c < MaxClients
    THEN {"found", "initialized", "Qdrant initialization failed"}
    ELSE {"found"}

\* The client after ensureCollectionExists().
ClientAfter(c, lookup) == IF lookup = "found" THEN c ELSE initQdrant(c)

\* ensureCollection() as a version that makes the collection anew when its
\* vector size is not VECTOR_SIZE.
ensureCollection_Recreate(size) == VECTOR_SIZE

\* ensureCollection(): a collection that exists is left as it is, a vector
\* size other than VECTOR_SIZE is only logged; size 0 stands for no
\* collection, which is created with VECTOR_SIZE.
ensureCollection(size) == IF size = 0 THEN VECTOR_SIZE ELSE size

\* The collection after ensureCollectionExists(): initQdrant() ends with
\* ensureCollection().
CollectionAfter(size, lookup) ==
    IF lookup = "initialized" THEN ensureCollection(size) ELSE size

\* What the store answers to a search or an upsert of vectors of n numbers:
\* it can fail at any time, and refuses vectors of another size than the
\* collection's.
Answers(n) == IF n = collection THEN BOOLEAN ELSE {FALSE}

\* The existence check as a version that deletes the document it finds
\* before anything is processed.
StoreAfterProbe_DeleteUpFront(s, d, found) ==
    IF found THEN s \ PointsOf(s, d) ELSE s

\* What the existence check leaves in the store: it only looks.
StoreAfterProbe(s, d, found) == s

\* The existence probe; a probe that throws is logged and ignored.
Probe ==
    /\ pc = "probe"
    /\ calls' = Append(calls, "search")
    /\ \E ok \in Answers(VECTOR_SIZE), lookup \in Lookups(client) :
         LET found == /\ ok
                      /\ lookup # "Qdrant initialization failed"
                      /\ \E h \in SearchHits(store, 1, doc_id) : h # {}
         IN  /\ client' = ClientAfter(client, lookup)
             /\ collection' = CollectionAfter(collection, lookup)
             /\ IF overwrite
                THEN /\ documentExists' = found
                     /\ store' = StoreAfterProbe(store, doc_id, found)
                     /\ pc' = "decode"
                     /\ UNCHANGED resp
                ELSE /\ UNCHANGED <<documentExists, store>>
                     /\ IF found
                        THEN Respond(400, "DOCUMENT_EXISTS", "already exists")
                        ELSE pc' = "decode" /\ UNCHANGED resp
    /\ UNCHANGED <<nReq, body, store0, pages, pageIx, allChunks, loop,
                   embedded, attempt, upsertAt, thrown>>
    /\ UNCHANGED qvars
    /\ UNCHANGED context

\* Buffer.from(pdf_base64, "base64") and the size check.
Decode ==
    /\ pc = "decode"
    /\ IF body.pdf_base64[1].bytes > maxSize
       THEN Respond(413, "FILE_TOO_LARGE", "PDF file too large")
       ELSE pc' = "extract" /\ UNCHANGED resp
    /\ UNCHANGED <<store, nReq, body, store0, calls, documentExists, pages,
                   pageIx, allChunks, loop, embedded, attempt, upsertAt, thrown>>
    /\ UNCHANGED qvars
    /\ UNCHANGED <<client, collection, context>>

----------------------------------------------------------------------------
(* POST /ingest: extraction and chunking *)

\* deleteDocumentVectors on the store: the remote delete removes the
\* document's points, or fails and removes nothing.
AfterDelete(s, d, ok) == IF ok THEN s \ PointsOf(s, d) ELSE s

\* pdfToPages: the pages, or the error it throws.
pdfToPages(reply) ==
    IF reply.kind = "connect"
    THEN [threw |-> TRUE, msg |-> "Could not connect to PDF extraction service",
          pages |-> <<>>]
    ELSE IF reply.kind = "http"
    THEN [threw |-> TRUE,
          msg |-> "PDF extraction failed: PDF service returned "
                     \o ToString(reply.status) \o ": " \o reply.statusText,
          pages |-> <<>>]
    ELSE IF Len(reply.pages) = 0
    THEN [threw |-> TRUE,
          msg |-> "PDF extraction failed: PDF service returned no pages",
          pages |-> <<>>]
    ELSE [threw |-> FALSE, msg |-> "", pages |-> reply.pages]

\* The error texts of the route's catch blocks.
EmbeddingErrorText(msg) ==
    "Embedding generation failed: " \o msg \o ". No data has been stored or modified."
InvalidEmbeddingsText ==
    "Failed to generate embeddings for chunks. No data has been stored."
StorageErrorText(msg) ==
    "Vector storage failed: " \o msg \o ". No data has been stored."
IngestionErrorText(msg) ==
    "Ingestion failed: " \o msg \o ". No data has been stored."

\* The handler's outer catch, entered with the calls made so far.
OuterCatch(msg, made) ==
    /\ IF NeedsEmergencyCleanup(msg) /\ overwrite
       THEN /\ calls' = Append(made, "emergency")
            /\ \E ok \in BOOLEAN : store' = AfterDelete(store, doc_id, ok)
       ELSE /\ calls' = made
            /\ UNCHANGED store
    /\ thrown' = msg
    /\ Respond(500, ErrorCode(msg), IngestionErrorText(msg))

Extract ==
    /\ pc = "extract"
    /\ \E reply \in ExtractReplies :
         LET r == pdfToPages(reply)
             made == Append(calls, "extract")
         IN  IF r.threw
             THEN OuterCatch(r.msg, made) /\ UNCHANGED <<pages, pageIx>>
             ELSE /\ calls' = made
                  /\ UNCHANGED <<store, thrown>>
                  /\ IF Len(r.pages) = 0
                     THEN /\ Respond(400, "EMPTY_PDF", "No text content found in PDF")
                          /\ UNCHANGED <<pages, pageIx>>
                     ELSE /\ pages' = r.pages
                          /\ pageIx' = 1
                          /\ pc' = "chunk"
                          /\ UNCHANGED resp
    /\ UNCHANGED <<nReq, body, store0, documentExists, allChunks, loop,
                   embedded, attempt, upsertAt>>
    /\ UNCHANGED qvars
    /\ UNCHANGED <<client, collection, context>>

chunkSize == OrDefault(body.chunk_size, DefaultChunkSize)
overlap == OrDefault(body.chunk_overlap, DefaultOverlap)

\* The loop over the pages: a blank page is skipped; otherwise chunkText
\* starts on the page, on tokens, or on words when the tokenizer throws.
ChunkBegin ==
    /\ pc = "chunk"
    /\ pageIx <= Len(pages)
    /\ LET page == pages[pageIx]
       IN  IF Len(Trim(page.text)) = 0
           THEN /\ pageIx' = pageIx + 1
                /\ UNCHANGED <<pc, loop>>
           ELSE /\ \E encodes \in BOOLEAN :
                     loop' = [mode |-> IF encodes THEN "token" ELSE "word",
                              n |-> IF encodes THEN page.ntok
                                    ELSE Len(Split(page.text)),
                              i |-> 0, idx |-> 0, iter |-> 0, chunks |-> <<>>,
                              at |-> <<>>]
                /\ pc' = "chunkloop"
                /\ UNCHANGED pageIx
    /\ UNCHANGED <<store, nReq, body, store0, calls, documentExists, pages,
                   allChunks, embedded, attempt, upsertAt, thrown, resp>>
    /\ UNCHANGED qvars
    /\ UNCHANGED <<client, collection, context>>

MkChunk(d, page, idx, text) ==
    [id |-> <<d, page, idx>>, text |-> text, doc_id |-> d, page |-> page,
     chunk_index |-> idx]

\* The index after a window as a version that counts every window.
NextIdx_EveryWindow(idx, text) == idx + 1

\* if (chunkText.length > 0) { ...; idx++ }
NextIdx(idx, text) == IF Len(text) > 0 THEN idx + 1 ELSE idx

\* One evaluation of the loop condition i < n, and one iteration of the loop
\* body when it holds; chunkText returns when it does not.
ChunkStep ==
    /\ pc = "chunkloop"
    /\ LET page == pages[pageIx]
           text == IF loop.mode = "token"
                   THEN TokenWindowText(page.text, loop.n, loop.i, chunkSize)
                   ELSE WordWindowText(page.text, loop.i, chunkSize)
       IN  IF loop.i < loop.n
           THEN /\ loop.iter < MaxIter
                /\ loop' = [loop EXCEPT
                      !.i = loop.i + (chunkSize - overlap),
                      !.iter = loop.iter + 1,
                      !.idx = NextIdx(loop.idx, text),
                      !.at = IF Len(text) > 0 THEN Append(loop.at, loop.i)
                             ELSE loop.at,
                      !.chunks = IF Len(text) > 0
                                 THEN Append(loop.chunks,
                                        MkChunk(doc_id, page.page, loop.idx, text))
                                 ELSE loop.chunks]
                /\ UNCHANGED <<pc, pageIx, allChunks>>
           ELSE /\ allChunks' = allChunks \o loop.chunks
                /\ pageIx' = pageIx + 1
                /\ loop' = NoLoop
                /\ pc' = "chunk"
    /\ UNCHANGED <<store, nReq, body, store0, calls, documentExists, pages,
                   embedded, attempt, upsertAt, thrown, resp>>
    /\ UNCHANGED qvars
    /\ UNCHANGED <<client, collection, context>>

\* After the last page: no chunk at all is an error, otherwise embedChunks
\* is called.
ChunkEnd ==
    /\ pc = "chunk"
    /\ pageIx > Len(pages)
    /\ IF Len(allChunks) = 0
       THEN /\ Respond(400, "NO_CHUNKS", "No chunks generated from PDF content")
            /\ UNCHANGED <<calls, attempt>>
       ELSE /\ pc' = "embed"
            /\ calls' = Append(calls, "embed")
            /\ attempt' = 1
            /\ UNCHANGED resp
    /\ UNCHANGED <<store, nReq, body, store0, documentExists, pages, pageIx,
                   allChunks, loop, embedded, upsertAt, thrown>>
    /\ UNCHANGED qvars
    /\ UNCHANGED <<client, collection, context>>

----------------------------------------------------------------------------
(* Embedding client *)

Vec(len, finite) == [len |-> len, finite |-> finite]

\* What the embedding API answers to a batch of n texts: an error, or a
\* response with a list of embeddings.
EmbedError(msg) == [kind |-> "error", msg |-> msg, vectors |-> <<>>]
EmbedResponse(vs) == [kind |-> "response", msg |-> "", vectors |-> vs]

EmbedReplies(n) ==
    { EmbedError("503 Service Unavailable"),
      EmbedError("fetch failed"),
      EmbedError("429 Too Many Requests"),
      EmbedError("404 Not Found"),
      EmbedError("401 Unauthorized"),
      EmbedError("403 permission denied"),
      EmbedError("429 You exceeded your current quota"),
      EmbedResponse(<<>>),
      EmbedResponse([k \in 1..n |-> Vec(VECTOR_SIZE, TRUE)]),
      EmbedResponse([k \in 1..n |-> Vec(4 * VECTOR_SIZE, TRUE)]),
      EmbedResponse([k \in 1..n |-> Vec(VECTOR_SIZE, k < n)]),
      EmbedResponse([k \in 1..n |-> Vec(IF k = 1 THEN 0 ELSE VECTOR_SIZE, TRUE)]),
      EmbedResponse([k \in 1..n |->
                        Vec(IF k = n THEN 4 * VECTOR_SIZE ELSE VECTOR_SIZE, TRUE)]),
      EmbedResponse([k \in 1..(n - 1) |-> Vec(VECTOR_SIZE, TRUE)]) }

\* The checks of a response as a version that accepts every response.
ResponseError_None(vs) == ""

\* The checks of a response inside the try block: the message of the error
\* thrown, "" when the embeddings are returned.
ResponseError(vs) ==
    IF Len(vs) = 0 THEN "Invalid embedding response format"
    ELSE IF \E k \in 1..Len(vs) : vs[k].len = 0
         THEN LET k == CHOOSE j \in 1..Len(vs) :
                         vs[j].len = 0 /\ \A l \in 1..(j - 1) : vs[l].len # 0
              IN  "Embedding values missing for text " \o ToString(k)
    ELSE IF \E k \in 1..Len(vs) : vs[k].len # vs[1].len
         THEN LET k == CHOOSE j \in 1..Len(vs) :
                         /\ vs[j].len # vs[1].len
                         /\ \A l \in 1..(j - 1) : vs[l].len = vs[1].len
              IN  "Embedding dimension mismatch for text " \o ToString(k)
                  \o ": expected " \o ToString(vs[1].len)
                  \o ", got " \o ToString(vs[k].len)
    ELSE ""

\* The catch block's classes of message that are not retried.
IsAuthMessage(msg) ==
    \/ Includes(msg, "400") \/ Includes(msg, "401") \/ Includes(msg, "403")
    \/ Includes(msg, "API_KEY") \/ Includes(msg, "permission")

IsQuotaMessage(msg) == Includes(msg, "quota") \/ Includes(msg, "exceeded")

RETRY_DELAY == 2000

RECURSIVE Pow2(_)
Pow2(n) == IF n = 0 THEN 1 ELSE 2 * Pow2(n - 1)

\* The wait after a failed attempt as a version that does not grow.
RetryDelay_Constant(k) == RETRY_DELAY

\* RETRY_DELAY * Math.pow(2, attempt - 1)
RetryDelay(k) == RETRY_DELAY * Pow2(k - 1)

\* The entries of the call log for a remote embedding call and for a wait.
Sleep(ms) == "sleep " \o ToString(ms)

EmbedCalls(end, k) ==
    IF end = "retry" THEN <<"embedContent", Sleep(RetryDelay(k))>>
    ELSE <<"embedContent">>

\* One attempt of embedTextsWithGemini: what the attempt ends in.
\*   "return": the vectors are returned; "throw": msg propagates;
\*   "retry": the loop sleeps and goes to the next attempt, msg is the
\*   message of the error it caught.
AttemptResult(reply, k) ==
    LET err == IF reply.kind = "error" THEN reply.msg
               ELSE ResponseError(reply.vectors)
    IN  IF err = "" THEN [end |-> "return", msg |-> ""]
        ELSE IF IsAuthMessage(err)
             THEN [end |-> "throw",
                   msg |-> "Authentication/Authorization error: " \o err]
        ELSE IF IsQuotaMessage(err)
             THEN [end |-> "throw", msg |-> "API quota exceeded: " \o err]
        ELSE IF k = MAX_RETRIES
             THEN [end |-> "throw",
                   msg |-> "Embedding generation failed after attempts: " \o err]
        ELSE [end |-> "retry", msg |-> err]

\* embedChunksWithGemini's check of a batch against the vectors returned:
\* whether every chunk of the batch has a non-empty vector.
BatchComplete(batch, vs) ==
    \A j \in 1..Len(batch) : j <= Len(vs) /\ vs[j].len # 0

EmbedBatch(batch, vs) ==
    [j \in 1..Len(batch) |->
        [id |-> batch[j].id, text |-> batch[j].text, doc_id |-> batch[j].doc_id,
         page |-> batch[j].page, chunk_index |-> batch[j].chunk_index,
         vector |-> vs[j]]]

\* The ingest route's own check of what embedChunks returned.
invalidEmbeddings(es) == {k \in 1..Len(es) : es[k].vector.len = 0}

\* Whether the route deletes the previous version before it stores.
DeletesFirst == overwrite /\ documentExists

\* The route's catch around embedChunks: the code it answers with.
EmbeddingFailureCode(msg) == "EMBEDDING_ERROR"

\* One attempt at the current batch, and what the callers do with its end.
EmbedAttempt ==
    /\ pc = "embed"
    /\ LET from  == Len(embedded)
           batch == SubSeq(allChunks, from + 1,
                           Min(from + MAX_BATCH_SIZE, Len(allChunks)))
       IN  \E reply \in EmbedReplies(Len(batch)) :
             LET a    == AttemptResult(reply, attempt)
                 made == calls \o EmbedCalls(a.end, attempt)
             IN  IF a.end = "retry"
                 THEN /\ attempt' = attempt + 1
                      /\ calls' = made
                      /\ thrown' = a.msg
                      /\ UNCHANGED <<pc, embedded, resp>>
                 ELSE IF a.end = "throw"
                 THEN /\ Respond(500, EmbeddingFailureCode(a.msg),
                                 EmbeddingErrorText(a.msg))
                      /\ calls' = made
                      /\ thrown' = a.msg
                      /\ UNCHANGED <<embedded, attempt>>
                 ELSE IF ~BatchComplete(batch, reply.vectors)
                 THEN /\ Respond(500, EmbeddingFailureCode("Failed to generate embedding"),
                                 EmbeddingErrorText("Failed to generate embedding"))
                      /\ calls' = made
                      /\ thrown' = ""
                      /\ UNCHANGED <<embedded, attempt>>
                 ELSE LET es == embedded \o EmbedBatch(batch, reply.vectors)
                      IN  /\ embedded' = es
                          /\ attempt' = 1
                          /\ thrown' = ""
                          /\ IF Len(es) < Len(allChunks)
                             THEN /\ calls' = Append(made, "wait between batches")
                                  /\ UNCHANGED <<pc, resp>>
                             ELSE IF invalidEmbeddings(es) # {}
                             THEN /\ Respond(500, "EMBEDDING_ERROR",
                                             InvalidEmbeddingsText)
                                  /\ calls' = made
                             ELSE /\ pc' = IF DeletesFirst THEN "delete" ELSE "upsert"
                                  /\ calls' = Append(made, "embedded")
                                  /\ UNCHANGED resp
    /\ UNCHANGED <<store, nReq, body, store0, documentExists, pages, pageIx,
                   allChunks, loop, upsertAt>>
    /\ UNCHANGED qvars
    /\ UNCHANGED <<client, collection, context>>

----------------------------------------------------------------------------
(* Vector store client and the commit *)

\* The delete of the previous version; a delete that throws is logged and
\* ignored.
DeleteOld ==
    /\ pc = "delete"
    /\ calls' = Append(calls, "delete")
    /\ \E ok \in BOOLEAN : store' = AfterDelete(store, doc_id, ok)
    /\ pc' = "upsert"
    /\ UNCHANGED <<nReq, body, store0, documentExists, pages, pageIx, allChunks,
                   loop, embedded, attempt, upsertAt, thrown, resp>>
    /\ UNCHANGED qvars
    /\ UNCHANGED <<client, collection, context>>

\* upsertVectors up to its batch loop: the collection is looked up, created
\* through initQdrant when the lookup fails, and looked up again.
UpsertBegin ==
    /\ pc = "upsert"
    /\ calls' = Append(calls, "upsert")
    /\ \E lookup \in Lookups(client), accessible \in BOOLEAN :
         /\ client' = ClientAfter(client, lookup)
         /\ collection' = CollectionAfter(collection, lookup)
         /\ IF lookup = "Qdrant initialization failed"
            THEN pc' = "cleanup" /\ thrown' = lookup /\ UNCHANGED upsertAt
            ELSE IF ~accessible
            THEN /\ pc' = "cleanup"
                 /\ thrown' = "Collection not accessible"
                 /\ UNCHANGED upsertAt
            ELSE pc' = "upsertbatch" /\ upsertAt' = 0 /\ UNCHANGED thrown
    /\ UNCHANGED <<store, nReq, body, store0, documentExists, pages, pageIx,
                   allChunks, loop, embedded, attempt, resp>>
    /\ UNCHANGED qvars
    /\ UNCHANGED context

RECURSIVE Digits(_)
Digits(n) == IF n < 10 THEN 1 ELSE 1 + Digits(n \div 10)

\* The length of the id `${docId}:${page}:${idx}`; <<>> is the empty id.
IdLength(id) ==
    IF id = <<>> THEN 0
    ELSE Len(id[1]) + 1 + Digits(id[2]) + 1 + Digits(id[3])

\* upsertVectors' validation of one point: the message of the error thrown,
\* "" when the point is valid.
PointError(p) ==
    IF p.vector.len = 0 THEN "Invalid vector"
    ELSE IF p.vector.len # VECTOR_SIZE THEN "Invalid vector dimension"
    ELSE IF ~p.vector.finite THEN "Invalid vector values"
    ELSE IF IdLength(p.id) = 0 \/ Len(p.text) = 0 \/ Len(p.doc_id) = 0
         THEN "Missing required fields"
    ELSE IF IdLength(p.id) > MaxIdLength THEN "Point ID too long"
    ELSE ""

\* The validation of a batch as a version that looks at its first point only.
BatchError_FirstOnly(batch) ==
    IF PointError(batch[1]) = "" THEN ""
    ELSE PointError(batch[1]) \o " at batch index 0"

\* The first error the validation of a batch throws, which names the point
\* by its index in the batch; "" when there is none.
BatchError(batch) ==
    IF \A k \in 1..Len(batch) : PointError(batch[k]) = "" THEN ""
    ELSE LET k == CHOOSE j \in 1..Len(batch) :
                    /\ PointError(batch[j]) # ""
                    /\ \A l \in 1..(j - 1) : PointError(batch[l]) = ""
         IN  PointError(batch[k]) \o " at batch index " \o ToString(k - 1)

\* The point stored for the k-th chunk of the request: its id is a fresh
\* UUID, the chunk's own id is kept in the payload.
MkPoint(p, k) ==
    [uuid |-> <<nReq, k>>, vector |-> p.vector, original_id |-> p.id,
     text |-> p.text, doc_id |-> p.doc_id, page |-> p.page,
     chunk_index |-> p.chunk_index]

\* The remote calls of a batch whose upsert fails: the batch, then its first
\* point alone when the batch has more than one.
FailedUpsertCalls(batch) ==
    IF Len(batch) > 1 THEN <<"client.upsert", "client.upsert single">>
    ELSE <<"client.upsert">>

\* One batch of upsertVectors: validated, then sent; when the remote call
\* fails and the batch has more than one point, its first point is sent
\* alone before the error is thrown.
UpsertBatch ==
    /\ pc = "upsertbatch"
    /\ LET to    == Min(upsertAt + BATCH_SIZE, Len(embedded))
           batch == SubSeq(embedded, upsertAt + 1, to)
           sent  == {MkPoint(embedded[k], k) : k \in (upsertAt + 1)..to}
       IN  IF BatchError(batch) # ""
           THEN /\ thrown' = BatchError(batch)
                /\ pc' = "cleanup"
                /\ UNCHANGED <<store, upsertAt, resp, calls>>
           ELSE \E ok \in Answers(VECTOR_SIZE) :
                  IF ok
                  THEN /\ store' = store \cup sent
                       /\ upsertAt' = upsertAt + BATCH_SIZE
                       /\ calls' = Append(calls, "client.upsert")
                       /\ UNCHANGED thrown
                       /\ IF upsertAt + BATCH_SIZE < Len(embedded)
                          THEN UNCHANGED <<pc, resp>>
                          ELSE /\ pc' = "done"
                               /\ resp' = [status |-> 200, success |-> TRUE,
                                           code |-> "", error |-> "",
                                           total_chunks |-> Len(embedded),
                                           total_pages |-> Len(pages)]
                  ELSE /\ \E single \in Answers(VECTOR_SIZE) :
                            store' = IF single /\ Len(batch) > 1
                                     THEN store \cup {MkPoint(batch[1], upsertAt + 1)}
                                     ELSE store
                       /\ calls' = calls \o FailedUpsertCalls(batch)
                       /\ thrown' = "Vector upsert failed"
                       /\ pc' = "cleanup"
                       /\ UNCHANGED <<upsertAt, resp>>
    /\ UNCHANGED <<nReq, body, store0, documentExists, pages, pageIx,
                   allChunks, loop, embedded, attempt>>
    /\ UNCHANGED qvars
    /\ UNCHANGED <<client, collection, context>>

\* The response as a version in which a failed cleanup reports its own error.
StorageErrorMessage_Masked(upsertMsg, cleanedUp) ==
    IF cleanedUp THEN upsertMsg ELSE "Failed to delete vectors"

\* The message the storage error response carries, after a cleanup delete
\* that succeeded or threw.
StorageErrorMessage(upsertMsg, cleanedUp) == upsertMsg

\* The catch around upsertVectors: one cleanup delete, whose own failure is
\* logged and ignored, then the storage error response.
Cleanup ==
    /\ pc = "cleanup"
    /\ calls' = Append(calls, "cleanup")
    /\ \E ok \in BOOLEAN :
         /\ store' = AfterDelete(store, doc_id, ok)
         /\ Respond(500, "STORAGE_ERROR",
                    StorageErrorText(StorageErrorMessage(thrown, ok)))
    /\ UNCHANGED <<nReq, body, store0, documentExists, pages, pageIx, allChunks,
                   loop, embedded, attempt, upsertAt, thrown>>
    /\ UNCHANGED qvars
    /\ UNCHANGED <<client, collection, context>>

----------------------------------------------------------------------------
(* POST /query: requests *)

\* A question is a sequence of tokens: words, the space " " and the marks
\* "!" and "?".  Scores and confidences are in thousandths.

\* The number of characters of a token.
TokenLength(t) ==
    CASE t \in {" ", "!", "?", "x"} -> 1
      [] t \in {"hi", "HI", "is", "up", "do"} -> 2
      [] t \in {"who", "are", "you", "see", "thx", "bye", "can"} -> 3
      [] t \in {"what", "help", "good"} -> 4
      [] t \in {"hello", "Hello", "world", "there"} -> 5
      [] t = "thanks" -> 6
      [] t = "long-question" -> 1001
      [] OTHER -> 7

RECURSIVE Length(_)
Length(q) == IF q = <<>> THEN 0 ELSE TokenLength(Head(q)) + Length(Tail(q))

\* String.prototype.toLowerCase
LowerToken(t) ==
    CASE t = "Hello" -> "hello"
      [] t = "HI" -> "hi"
      [] OTHER -> t

toLowerCase(q) == [k \in 1..Len(q) |-> LowerToken(q[k])]

\* The languages of the patterns of handleSimpleGreetings: a phrase,
\* optionally followed by one mark.
Phrase(ws) ==
    [k \in 1..(2 * Len(ws) - 1) |-> IF k % 2 = 1 THEN ws[(k + 1) \div 2] ELSE " "]

GreetingsBang ==
    {Phrase(ws) : ws \in {<<"hi">>, <<"hello">>, <<"hey">>, <<"hiya">>,
                          <<"good", "morning">>, <<"good", "afternoon">>,
                          <<"good", "evening">>, <<"hi", "there">>,
                          <<"hello", "there">>, <<"hey", "there">>,
                          <<"good", "day">>, <<"greetings">>}}

GreetingsAsk ==
    {Phrase(ws) : ws \in {<<"what's", "up">>, <<"whats", "up">>, <<"wassup">>,
                          <<"how", "are", "you">>, <<"how", "do", "you", "do">>}}

ConversationalAsk ==
    {Phrase(ws) : ws \in {<<"who", "are", "you">>, <<"what", "are", "you">>,
                          <<"what", "do", "you", "do">>, <<"what", "can", "you", "do">>,
                          <<"help">>, <<"can", "you", "help">>,
                          <<"can", "you", "help", "me">>}}

ConversationalBang ==
    {Phrase(ws) : ws \in {<<"thank", "you">>, <<"thanks">>, <<"thx">>, <<"goodbye">>,
                          <<"bye">>, <<"see", "you">>, <<"farewell">>}}

\* pattern.test(q) for /^(phrases)mark?$/
Test(phrases, mark, q) ==
    \/ q \in phrases
    \/ /\ q # <<>>
       /\ q[Len(q)] = mark
       /\ SubSeq(q, 1, Len(q) - 1) \in phrases

isGreeting(q) == Test(GreetingsBang, "!", q) \/ Test(GreetingsAsk, "?", q)
isConversational(q) == Test(ConversationalAsk, "?", q) \/ Test(ConversationalBang, "!", q)

\* String.prototype.includes for a piece of a word.
IncludesIn(q, ws) == \E k \in 1..Len(q) : q[k] \in ws

\* The canned answer of a conversational question; "" when none is chosen.
CannedAnswer(q) ==
    IF Includes(q, Phrase(<<"who", "are", "you">>))
       \/ Includes(q, Phrase(<<"what", "are", "you">>))
      THEN "I'm an AI assistant"
    ELSE IF Includes(q, Phrase(<<"what", "do", "you", "do">>))
            \/ Includes(q, Phrase(<<"what", "can", "you", "do">>))
      THEN "I can help you find information"
    ELSE IF IncludesIn(q, {"help"})
      THEN "I'm here to help!"
    ELSE IF IncludesIn(q, {"thank", "thanks", "thx"})
      THEN "You're welcome!"
    ELSE IF IncludesIn(q, {"bye", "goodbye", "farewell"})
      THEN "Goodbye!"
    ELSE ""

\* handleSimpleGreetings: the answer's text, "" for null.  llm is the text
\* the generation API gave for a greeting, "" when it gave none or failed.
handleSimpleGreetings(question, llm) ==
    LET normalizedQuestion == Trim(toLowerCase(question))
    IN  IF isGreeting(normalizedQuestion)
        THEN IF llm # "" THEN llm ELSE "Hello! How can I help you today?"
        ELSE IF isConversational(normalizedQuestion)
        THEN CannedAnswer(normalizedQuestion)
        ELSE ""

Questions ==
    { <<"hello">>, <<" ", "Hello", "!">>, Phrase(<<"who", "are", "you">>) \o <<"?">>,
      Phrase(<<"see", "you">>), <<"thanks">>,
      Phrase(<<"hello", "world">>), Phrase(<<"what", "is", "x">>) }

MkQuery(q, k, d, m) == [question |-> q, top_k |-> k, doc_id |-> d, min_score |-> m]

\* Bodies the schema or the handler rejects.
BadQueries ==
    { MkQuery(<<>>, <<>>, <<>>, <<>>),
      MkQuery(<<<<>>>>, <<>>, <<>>, <<>>),
      MkQuery(<<<<" ">>>>, <<>>, <<>>, <<>>),
      MkQuery(<<<<"long-question">>>>, <<>>, <<>>, <<>>),
      MkQuery(<<<<"hello">>>>, <<0>>, <<>>, <<>>),
      MkQuery(<<<<"hello">>>>, <<51>>, <<>>, <<>>),
      MkQuery(<<<<"hello">>>>, <<>>, <<>>, <<1001>>),
      MkQuery(<<<<"hello">>>>, <<>>, <<>>, <<-1>>) }

QueryOptions ==
    { <<<<>>, <<>>, <<>>>>,
      <<<<1>>, <<DocD>>, <<600>>>>,
      <<<<2>>, <<<<>>>>, <<0>>>>,
      <<<<>>, <<DocE>>, <<300>>>>,
      <<<<>>, <<>>, <<600>>>> }

GoodQueries ==
    {MkQuery(<<q>>, o[1], o[2], o[3]) : q \in Questions, o \in QueryOptions}

Queries == BadQueries \cup GoodQueries

\* The scores the store gives its results: best first, and once in an order
\* of its own.
ScoreProfiles ==
    { <<600, 950, 300, 920, 850>>,
      <<950, 920, 850, 600, 300>>,
      <<780, 650, 640, 450, 200>>,
      <<650, 450, 350, 310, 100>>,
      <<400, 390, 380, 370, 360>>,
      <<320, 310, 300, 250, 200>>,
      <<290, 250, 200, 100, 0>> }

----------------------------------------------------------------------------
(* POST /query: the handler *)

\* The request's own fields, with the handler's defaults.
question == query.question[1]
top_k == IF query.top_k = <<>> THEN DefaultTopK ELSE query.top_k[1]
min_score == IF query.min_score = <<>> THEN 0 ELSE query.min_score[1]

\* The route's body schema.
QuerySchemaAccepts(b) ==
    /\ b.question # <<>>
    /\ Length(b.question[1]) >= 1
    /\ Length(b.question[1]) <= MaxQuestionLength
    /\ b.top_k # <<>> => b.top_k[1] >= 1 /\ b.top_k[1] <= MaxTopK
    /\ b.min_score # <<>> => b.min_score[1] >= 0 /\ b.min_score[1] <= 1000

QueryFail(status, code) ==
    /\ qresp' = [NoAnswer EXCEPT !.status = status, !.code = code]
    /\ pc' = "qfailed"

\* The handler's catch block.
QueryCatch(msg) ==
    /\ QueryFail(500, "QUERY_ERROR")
    /\ thrown' = msg

QueryAnswered(text, sources, confidence, total) ==
    /\ qresp' = [status |-> 200, success |-> TRUE, code |-> "", text |-> text,
                 sources |-> sources, confidence |-> confidence,
                 total_results |-> total]
    /\ pc' = "qdone"

\* A query request arrives.
QueryReceive ==
    /\ pc \in Terminal \cup QTerminal \cup {"idle"}
    /\ nReq < MaxRequests
    /\ \E b \in Queries : query' = b
    /\ nReq' = nReq + 1
    /\ pc' = "qvalidate"
    /\ store0' = store
    /\ calls' = <<>>
    /\ body' = NoBody
    /\ documentExists' = FALSE
    /\ pages' = <<>>
    /\ pageIx' = 0
    /\ allChunks' = <<>>
    /\ loop' = NoLoop
    /\ embedded' = <<>>
    /\ attempt' = 0
    /\ upsertAt' = 0
    /\ thrown' = ""
    /\ resp' = NoResp
    /\ hits' = <<>>
    /\ queryEmbedding' = Vec(0, TRUE)
    /\ searchResults' = <<>>
    /\ qresp' = NoAnswer
    /\ context' = NoContext
    /\ UNCHANGED <<store, client, collection>>

\* The schema check and the handler's own checks; then embedQuery is called.
QueryValidate ==
    /\ pc = "qvalidate"
    /\ IF ~QuerySchemaAccepts(query)
         THEN QueryFail(400, "VALIDATION_ERROR") /\ UNCHANGED <<calls, attempt>>
       ELSE IF Trim(question) = <<>>
         THEN QueryFail(400, "INVALID_QUESTION") /\ UNCHANGED <<calls, attempt>>
       ELSE IF Length(question) > MaxQuestionLength
         THEN QueryFail(400, "QUESTION_TOO_LONG") /\ UNCHANGED <<calls, attempt>>
       ELSE IF top_k <= 0 \/ top_k > MaxTopK
         THEN QueryFail(400, "INVALID_TOP_K") /\ UNCHANGED <<calls, attempt>>
       ELSE IF min_score < 0 \/ min_score > 1000
         THEN QueryFail(400, "INVALID_MIN_SCORE") /\ UNCHANGED <<calls, attempt>>
       ELSE /\ pc' = "qembed"
            /\ calls' = Append(calls, "embedQuery")
            /\ attempt' = 1
            /\ UNCHANGED qresp
    /\ UNCHANGED <<client, collection, context>>
    /\ UNCHANGED <<store, nReq, body, store0, documentExists, pages, pageIx,
                   allChunks, loop, embedded, upsertAt, thrown, resp, query,
                   hits, queryEmbedding, searchResults>>

\* The guard of embedQuery as a version that looks for the empty string only.
EmptyQuery_NotBlank(q) == q = <<>>

\* !query || query.trim().length === 0
EmptyQuery(q) == Trim(q) = <<>>

\* embedQuery's guard, and one attempt of its call of
\* embedTextsWithGemini([query]).
QueryEmbed ==
    /\ pc = "qembed"
    /\ IF EmptyQuery(question)
       THEN /\ QueryCatch("Query cannot be empty")
            /\ UNCHANGED <<attempt, calls, queryEmbedding>>
       ELSE
         \E reply \in EmbedReplies(1) :
              LET a == AttemptResult(reply, attempt)
              IN  IF a.end = "retry"
                  THEN /\ attempt' = attempt + 1
                       /\ calls' = calls \o EmbedCalls(a.end, attempt)
                       /\ thrown' = a.msg
                       /\ UNCHANGED <<pc, qresp, queryEmbedding>>
                  ELSE IF a.end = "throw"
                  THEN /\ QueryCatch(a.msg)
                       /\ calls' = calls \o EmbedCalls(a.end, attempt)
                       /\ UNCHANGED <<attempt, queryEmbedding>>
                  ELSE IF Len(reply.vectors) = 0 \/ reply.vectors[1].len = 0
                  THEN /\ QueryFail(500, "EMBEDDING_ERROR")
                       /\ calls' = calls \o EmbedCalls(a.end, attempt)
                       /\ thrown' = ""
                       /\ UNCHANGED <<attempt, queryEmbedding>>
                  ELSE /\ queryEmbedding' = reply.vectors[1]
                       /\ pc' = "qsearch"
                       /\ calls' = calls \o EmbedCalls(a.end, attempt)
                       /\ thrown' = ""
                       /\ UNCHANGED <<attempt, qresp>>
    /\ UNCHANGED <<client, collection, context>>
    /\ UNCHANGED <<store, nReq, body, store0, documentExists, pages,
                   pageIx, allChunks, loop, embedded, upsertAt, resp, query, hits,
                   searchResults>>

UuidLess(a, b) == a[1] < b[1] \/ (a[1] = b[1] /\ a[2] < b[2])

\* The points of a set in the order of their ids.
RECURSIVE Ranked(_)
Ranked(S) ==
    IF S = {} THEN <<>>
    ELSE LET m == CHOOSE x \in S : \A y \in S : x = y \/ UuidLess(x.uuid, y.uuid)
         IN  <<m>> \o Ranked(S \ {m})

Reverse(s) == [k \in 1..Len(s) |-> s[Len(s) + 1 - k]]

\* searchVectors(vector, topK, docId) when the store answers: the best topK
\* points of the document, or of the collection when docId is absent or
\* empty, with the scores the store gives them.
\* A payload's text is held as runs of equal characters, <<c, n>> for n
\* times c, no two runs of the same character next to each other.
RECURSIVE Runs(_)
Runs(text) ==
    IF text = <<>> THEN <<>>
    ELSE CHOOSE runs \in
             { IF rest # <<>> /\ rest[1][1] = Head(text)
               THEN <<<<Head(text), rest[1][2] + 1>>>> \o Tail(rest)
               ELSE <<<<Head(text), 1>>>> \o rest :
                  rest \in {Runs(Tail(text))} } : TRUE

searchVectors(s, topK, docId, profile, rev) ==
    LET cand   == IF docId = <<>> \/ docId[1] = <<>> THEN s ELSE PointsOf(s, docId[1])
        ranked == IF rev THEN Reverse(Ranked(cand)) ELSE Ranked(cand)
        n      == Min(Min(topK, Len(ranked)), Len(profile))
    IN  [k \in 1..n |->
            CHOOSE r \in
                { [id |-> p.uuid, score |-> profile[k],
                   payload |-> [text |-> Runs(p.text), doc_id |-> p.doc_id,
                                page |-> p.page, chunk_index |-> p.chunk_index]] :
                     p \in {ranked[k]} } : TRUE]

\* The filter as a version that also drops a result whose score equals
\* min_score.
FilterByScore_Strict(rs, m) == SelectSeq(rs, LAMBDA r : r.score > m)

\* searchResults.filter(result => result.score >= min_score)
FilterByScore(rs, m) == SelectSeq(rs, LAMBDA r : r.score >= m)

NotFoundText == "I couldn't find any relevant information to answer your question"

MaxSearchTopK == 100

\* searchVectors' checks of its arguments as a version that checks nothing.
SearchGuard_None(vector, topK) == ""

\* searchVectors' checks of its arguments: the message of the error thrown,
\* "" when they pass.
SearchGuard(vector, topK) ==
    IF vector.len = 0 THEN "Search vector cannot be empty"
    ELSE IF topK <= 0 \/ topK > MaxSearchTopK THEN "topK must be between 1 and 100"
    ELSE ""

\* result.map(...) as a version that turns the results round.
MapResults_Reversed(rs) == Reverse(rs)

\* result.map(r => ({id, score: r.score || 0, payload})): the results one by
\* one, in their order.
MapResults(rs) == [k \in 1..Len(rs) |-> rs[k]]

\* The remote calls of searchVectors once its arguments have passed.
SearchCalls == <<"search", "client.getCollection", "client.search">>

\* The vector search and the min_score filter; generateAnswer is called when
\* a result survives.
QuerySearch ==
    /\ pc = "qsearch"
    /\ IF SearchGuard(queryEmbedding, top_k) # ""
       THEN /\ QueryCatch(SearchGuard(queryEmbedding, top_k))
            /\ calls' = Append(calls, "search")
            /\ UNCHANGED <<searchResults, hits, attempt, client, collection>>
       ELSE
         \E lookup \in Lookups(client), ok \in Answers(queryEmbedding.len),
            profile \in ScoreProfiles, rev \in BOOLEAN :
           /\ client' = ClientAfter(client, lookup)
           /\ collection' = CollectionAfter(collection, lookup)
           /\ IF lookup = "Qdrant initialization failed"
              THEN /\ QueryCatch(lookup)
                   /\ calls' = calls \o <<"search", "client.getCollection">>
                   /\ UNCHANGED <<searchResults, hits, attempt>>
              ELSE
                   IF ~ok \/ ~queryEmbedding.finite
                   THEN /\ QueryCatch("Failed to search vectors")
                        /\ calls' = calls \o SearchCalls
                        /\ UNCHANGED <<searchResults, hits, attempt>>
                   ELSE LET results ==
                                MapResults(searchVectors(store, top_k, query.doc_id,
                                                         profile, rev))
                            filteredResults == FilterByScore(results, min_score)
                        IN  /\ searchResults' = results
                            /\ IF filteredResults = <<>>
                               THEN /\ QueryAnswered(NotFoundText, <<>>, 0, 0)
                                    /\ calls' = calls \o SearchCalls
                                    /\ UNCHANGED <<hits, attempt, thrown>>
                               ELSE /\ hits' = filteredResults
                                    /\ pc' = "qanswer"
                                    /\ calls' = calls \o SearchCalls \o <<"generateAnswer">>
                                    /\ UNCHANGED <<attempt, thrown, qresp>>
    /\ UNCHANGED context
    /\ UNCHANGED <<store, nReq, body, store0, documentExists, pages, pageIx,
                   allChunks, loop, embedded, upsertAt, resp, query,
                   queryEmbedding>>

----------------------------------------------------------------------------
(* Answer generator *)

RECURSIVE MaxScore(_)
MaxScore(hs) ==
    IF Len(hs) = 1 THEN hs[1].score ELSE Max(hs[1].score, MaxScore(Tail(hs)))

RECURSIVE SumScores(_)
SumScores(hs) == IF hs = <<>> THEN 0 ELSE hs[1].score + SumScores(Tail(hs))

CountAbove(hs, x) == Cardinality({k \in 1..Len(hs) : hs[k].score > x})
CountBelow(hs, x) == Cardinality({k \in 1..Len(hs) : hs[k].score < x})

\* The threshold as a version whose comparisons include the bounds.
relevanceThreshold_Inclusive(hs) ==
    IF MaxScore(hs) >= 750 THEN 500
    ELSE IF MaxScore(hs) >= 600 THEN 400
    ELSE 300

\* The threshold generateAnswer filters the hits with.
relevanceThreshold(hs) ==
    IF MaxScore(hs) > 750 THEN 500
    ELSE IF MaxScore(hs) > 600 THEN 400
    ELSE 300

\* The filter as a version that keeps only the hits above the threshold.
relevantHits_Above(hs) ==
    SelectSeq(hs, LAMBDA h : h.score > relevanceThreshold(hs))

\* hits.filter(h => h.score >= relevanceThreshold)
relevantHits(hs) == SelectSeq(hs, LAMBDA h : h.score >= relevanceThreshold(hs))
\* The decent hits as a version that counts every hit.
decentHits_Any(hs) == hs

decentHits(hs) == SelectSeq(hs, LAMBDA h : h.score > 300)

\* hits.sort((a, b) => b.score - a.score): a stable sort, best first.  The
\* arguments of the recursive calls are bound as values, each computed once.
RECURSIVE InsertByScore(_, _)
InsertByScore(h, sorted) ==
    IF sorted = <<>> THEN <<h>>
    ELSE IF Head(sorted).score >= h.score
         THEN CHOOSE s \in { <<Head(sorted)>> \o InsertByScore(h, rest) :
                                rest \in {Tail(sorted)} } : TRUE
         ELSE <<h>> \o sorted

RECURSIVE SortByScore(_)
SortByScore(hs) ==
    IF hs = <<>> THEN <<>>
    ELSE CHOOSE s \in { InsertByScore(hs[Len(hs)], front) :
                           front \in {SortByScore(SubSeq(hs, 1, Len(hs) - 1))} } :
            TRUE

Sources(hs) ==
    [k \in 1..Len(hs) |->
        [doc_id |-> hs[k].payload.doc_id, page |-> hs[k].payload.page,
         relevanceScore |-> hs[k].score]]

RECURSIVE SumSquares(_, _, _)
SumSquares(hs, n, total) ==
    IF hs = <<>> THEN 0
    ELSE (n * hs[1].score - total) * (n * hs[1].score - total)
         + SumSquares(Tail(hs), n, total)

\* calculateStandardDeviation(scores) < 0.08, on the squares
StdDevBelowLimit(hs) ==
    SumSquares(hs, Len(hs), SumScores(hs)) < 6400 * Len(hs) * Len(hs) * Len(hs)

\* The cap as a version that returns the blended value as it is.
Clamp_None(confidence) == confidence

\* Math.max(0.2, Math.min(0.95, confidence))
Clamp(confidence) == Max(200, Min(950, confidence))

MAX_CONTEXT_LENGTH == 8000
maxSources == 8

\* The operators on runs bind their arguments as values on entry, so that
\* each is computed once.
RECURSIVE RunsLength(_)
RunsLength(rs) ==
    CHOOSE n \in { IF r = <<>> THEN 0 ELSE r[1][2] + RunsLength(Tail(r)) :
                      r \in {rs} } : TRUE

\* The first n characters of a text; none when n is not positive.
RECURSIVE TakeRuns(_, _)
TakeRuns(rs, n) ==
    CHOOSE taken \in
        { IF r = <<>> \/ m <= 0 THEN <<>>
          ELSE IF r[1][2] >= m THEN <<<<r[1][1], m>>>>
          ELSE <<r[1]>> \o TakeRuns(Tail(r), m - r[1][2]) :
             r \in {rs}, m \in {n} } : TRUE

RECURSIVE TrimRunsLeft(_)
TrimRunsLeft(rs) ==
    CHOOSE trimmed \in
        { IF r # <<>> /\ IsSpace(r[1][1]) THEN TrimRunsLeft(Tail(r)) ELSE r :
             r \in {rs} } : TRUE

RECURSIVE TrimRunsRight(_)
TrimRunsRight(rs) ==
    CHOOSE trimmed \in
        { IF r # <<>> /\ IsSpace(r[Len(r)][1])
          THEN TrimRunsRight(SubSeq(r, 1, Len(r) - 1))
          ELSE r : r \in {rs} } : TRUE

\* text.lastIndexOf('.'), -1 when the text has no '.'
RECURSIVE LastIndexOfDot(_)
LastIndexOfDot(rs) ==
    CHOOSE at \in
        { IF r = <<>> THEN -1
          ELSE IF r[Len(r)][1] = "." THEN RunsLength(r) - 1
          ELSE LastIndexOfDot(SubSeq(r, 1, Len(r) - 1)) : r \in {rs} } : TRUE

\* The limit of cleanTextForContext as a version without one.
LimitText_None(rs) == rs

\* .substring(0, 1000)
LimitText(rs) == TakeRuns(rs, 1000)

\* cleanTextForContext(text): every run of blanks becomes one blank, the
\* characters outside the allowed ones ("#" here) are removed, the text is
\* trimmed and cut to 1000 characters.
cleanTextForContext(rs) ==
    LET normal  == [k \in 1..Len(rs) |->
                       IF IsSpace(rs[k][1]) THEN <<" ", 1>> ELSE rs[k]]
        allowed == SelectSeq(normal, LAMBDA r : r[1] # "#")
    IN  LimitText(TrimRunsRight(TrimRunsLeft(allowed)))

\* extractDocumentName(docId), for ids of letters: the id, "Document" for
\* the empty id; its number of characters.
DocumentNameLength(docId) == IF Len(docId) = 0 THEN 8 ELSE Len(docId)

\* Math.round(score * 100), the score in thousandths.
RelevancePercent(score) == (score + 5) \div 10

\* The characters of `[Source: ${docName}, Page ${page}, Relevance: ${percent}%]`
SourceLength(hit) ==
    9 + DocumentNameLength(hit.payload.doc_id) + 7 + Digits(hit.payload.page)
      + 13 + Digits(RelevancePercent(hit.score)) + 2

\* The groups of buildContext: of the sorted hits, the first of every
\* doc_id and page.
RECURSIVE BestOfGroups(_, _)
BestOfGroups(sorted, seen) ==
    IF sorted = <<>> THEN <<>>
    ELSE LET docKey == <<Head(sorted).payload.doc_id, Head(sorted).payload.page>>
         IN  CHOOSE rest \in
                 { IF docKey \in seen THEN BestOfGroups(later, seen)
                   ELSE <<Head(sorted)>> \o BestOfGroups(later, seen \cup {docKey}) :
                      later \in {Tail(sorted)} } : TRUE

\* The loop of buildContext over the groups left, with the blocks made so
\* far, currentLength and sourceCount.  The arguments of the next round are
\* bound as values, each computed once.
RECURSIVE ContextLoop(_, _, _, _)
ContextLoop(groups, blocks, currentLength, sourceCount) ==
    IF groups = <<>> \/ sourceCount >= maxSources
       \/ currentLength >= MAX_CONTEXT_LENGTH
    THEN blocks
    ELSE CHOOSE next \in
        { LET source    == SourceLength(bestHit)
              content   == source + 1 + RunsLength(cleanText) + 6
              remaining == MAX_CONTEXT_LENGTH - currentLength
          IN  IF currentLength + content > MAX_CONTEXT_LENGTH
              THEN IF remaining > 200
                   THEN CHOOSE last \in
                       { LET lastSentence == LastIndexOfDot(truncatedText)
                             finalText == IF lastSentence > 0
                                          THEN TakeRuns(truncatedText,
                                                        lastSentence + 1)
                                          ELSE truncatedText
                         IN  Append(blocks,
                                    [hit |-> bestHit,
                                     length |-> source + 1 + RunsLength(finalText)
                                                   + 3 + 6]) :
                            truncatedText \in
                                {TakeRuns(cleanText, remaining - source - 50)} } :
                           TRUE
                   ELSE blocks
              ELSE CHOOSE rest \in
                       { ContextLoop(g, b, c, sourceCount + 1) :
                            g \in {Tail(groups)},
                            b \in {Append(blocks, [hit |-> bestHit,
                                                   length |-> content])},
                            c \in {currentLength + content} } : TRUE :
             bestHit \in {Head(groups)},
             cleanText \in {cleanTextForContext(Head(groups).payload.text)} } : TRUE

RECURSIVE SumLengths(_)
SumLengths(blocks) ==
    IF blocks = <<>> THEN 0 ELSE blocks[1].length + SumLengths(Tail(blocks))

\* buildContext(hits): the blocks, and the length of the string after
\* trim(), which takes the two line ends after the last block away.
buildContext(hs) ==
    CHOOSE c \in
        { [blocks |-> blocks,
           length |-> IF blocks = <<>> THEN 0 ELSE SumLengths(blocks) - 2] :
             blocks \in { ContextLoop(groups, <<>>, 0, 0) :
                            groups \in { BestOfGroups(sorted, {}) :
                                            sorted \in {SortByScore(hs)} } } } :
        TRUE

\* calculateConfidence(hits)
calculateConfidence(hs) ==
    IF hs = <<>> THEN 0
    ELSE
    LET n        == Len(hs)
        topScore == hs[1].score
        veryHigh == CountAbove(hs, 900)
        high     == CountAbove(hs, 800)
        low      == CountBelow(hs, 700)
        qualityBonus == IF veryHigh > 0 THEN Min(150, veryHigh * 50)
                        ELSE IF high > 0 THEN Min(100, high * 30)
                        ELSE 0
        consistencyBonus == IF StdDevBelowLimit(hs) THEN 50 ELSE 0
        extra    == qualityBonus - low * 50 + consistencyBonus
        weighted == 60 * topScore * n + 25 * SumScores(hs) + 100 * n * extra
    IN  Clamp((9 * weighted) \div (1000 * n))

\* The fixed texts of generateAnswer's answers without generation.
NoHitsText == "I couldn't find relevant information to answer your question"
NothingRelevantText ==
    "I couldn't find any relevant information in the available documents"
PossiblyRelatedText == "I found some potentially related content"

\* The check of the hits as a version that never finds them empty.
NoHits_Never(hs) == FALSE

\* !hits || hits.length === 0
NoHits(hs) == hs = <<>>

\* The surviving hits as a version in which buildContext sorts a copy.
hitsAfterContext_Copy(hs) == hs

\* The surviving hits as generateAnswer holds them after buildContext:
\* hits.sort(...) sorts the array it was passed in place.
hitsAfterContext(hs) == SortByScore(hs)

\* generateAnswer up to its call of the generation API: the conversational
\* short-circuit, then the relevance filter.
QueryAnswer ==
    /\ pc = "qanswer"
    /\ \E llm \in {"Hi there!", ""} :
         LET greetingResponse == handleSimpleGreetings(question, llm)
         IN  IF Trim(question) = <<>>
             THEN /\ QueryCatch("Question cannot be empty")
                  /\ UNCHANGED <<attempt, calls>>
             ELSE IF greetingResponse # ""
             THEN /\ QueryAnswered(greetingResponse, <<>>, 1000, Len(hits))
                  /\ calls' = IF isGreeting(Trim(toLowerCase(question)))
                              THEN Append(calls, "generateContent")
                              ELSE calls
                  /\ UNCHANGED <<attempt, thrown>>
             ELSE IF NoHits(hits)
             THEN /\ QueryAnswered(NoHitsText, <<>>, 0, Len(hits))
                  /\ UNCHANGED <<attempt, calls, thrown>>
             ELSE IF relevantHits(hits) = <<>>
             THEN /\ IF decentHits(hits) = <<>>
                     THEN QueryAnswered(NothingRelevantText, <<>>, 0, Len(hits))
                     ELSE QueryAnswered(PossiblyRelatedText,
                                        Sources(SubSeq(decentHits(hits), 1,
                                                       Min(3, Len(decentHits(hits))))),
                                        Min(400, MaxScore(hits)), Len(hits))
                  /\ UNCHANGED <<attempt, calls, thrown>>
             ELSE /\ pc' = "qgenerate"
                  /\ attempt' = 1
                  /\ calls' = Append(calls, "generateWithRetry")
                  /\ UNCHANGED <<qresp, thrown>>
    /\ \E surviving \in {relevantHits(hits)} :
          context' = IF pc' = "qgenerate" THEN buildContext(surviving)
                     ELSE context
    /\ UNCHANGED <<client, collection>>
    /\ UNCHANGED <<store, nReq, body, store0, documentExists, pages,
                   pageIx, allChunks, loop, embedded, upsertAt, resp,
                   query, queryEmbedding, searchResults, hits>>

\* What the generation API answers: a text (possibly empty or blank) or an
\* error.
GenerateReplies ==
    { [kind |-> "text", msg |-> "", text |-> "generated answer"],
      [kind |-> "text", msg |-> "", text |-> ""],
      [kind |-> "text", msg |-> "", text |-> "  "],
      [kind |-> "error", msg |-> "503 Service Unavailable", text |-> ""],
      [kind |-> "error", msg |-> "400 API_KEY_INVALID: API key not valid", text |-> ""],
      [kind |-> "error", msg |-> "403 The caller does not have permission", text |-> ""],
      [kind |-> "error", msg |-> "403 PERMISSION_DENIED: unregistered callers", text |-> ""],
      [kind |-> "error", msg |-> "401 UNAUTHENTICATED: invalid authentication credentials",
       text |-> ""] }

\* text.trim().length === 0
BlankText(text) == \A k \in 1..Len(text) : SubSeq(text, k, k) = " "

\* The wait after a failed attempt as a version that always waits the same.
GenerateDelay_Constant(k) == GenerateRetryDelay

\* RETRY_DELAY * attempt
GenerateDelay(k) == GenerateRetryDelay * k

\* The errors generateWithRetry throws again at once.
NotRetried(msg) == Includes(msg, "API_KEY") \/ Includes(msg, "permission")

\* One attempt of generateWithRetry: what the attempt ends in, and the error
\* it caught.
GenerateResult(reply, k) ==
    LET err == IF reply.kind = "error" THEN reply.msg
               ELSE IF BlankText(reply.text) THEN "Empty response from Gemini API"
               ELSE ""
    IN  IF err = "" THEN [end |-> "return", msg |-> ""]
        ELSE IF NotRetried(err) THEN [end |-> "throw", msg |-> err]
        ELSE IF k = GenerateMaxRetries
             THEN [end |-> "throw",
                   msg |-> "Failed to generate response after "
                           \o ToString(GenerateMaxRetries) \o " attempts: " \o err]
        ELSE [end |-> "retry", msg |-> err]

\* The calls of one attempt: the generation, and the wait when another
\* attempt follows.
GenerateCalls(end, k) ==
    IF end = "retry" THEN <<"generateContent", Sleep(GenerateDelay(k))>>
    ELSE <<"generateContent">>

InsufficientText == "I don't have sufficient relevant information"

\* The floor as a version that only rejects a confidence below 0.3.
BelowFloor_Lower(confidence) == confidence < 300

\* confidence < 0.35
BelowFloor(confidence) == confidence < ConfidenceFloor

\* One attempt at the generation, and what generateAnswer does with the text.
QueryGenerate ==
    /\ pc = "qgenerate"
    /\ \E reply \in GenerateReplies :
         LET g      == GenerateResult(reply, attempt)
             sorted == hitsAfterContext(relevantHits(hits))
             confidence == calculateConfidence(sorted)
         IN  /\ calls' = calls \o GenerateCalls(g.end, attempt)
             /\ IF g.end = "retry"
                THEN /\ attempt' = attempt + 1
                     /\ thrown' = g.msg
                     /\ UNCHANGED <<pc, qresp>>
                ELSE IF g.end = "throw"
                THEN /\ QueryCatch(g.msg)
                     /\ UNCHANGED attempt
                ELSE /\ IF BelowFloor(confidence)
                        THEN QueryAnswered(InsufficientText, <<>>, 0, Len(hits))
                        ELSE QueryAnswered(reply.text, Sources(sorted), confidence,
                                           Len(hits))
                     /\ thrown' = ""
                     /\ UNCHANGED attempt
    /\ UNCHANGED <<client, collection, context>>
    /\ UNCHANGED <<store, nReq, body, store0, documentExists, pages,
                   pageIx, allChunks, loop, embedded, upsertAt, resp, query,
                   queryEmbedding, searchResults, hits>>

----------------------------------------------------------------------------
(* The specification *)

Next ==
    \/ Receive
    \/ Validate
    \/ Probe
    \/ Decode
    \/ Extract
    \/ ChunkBegin
    \/ ChunkStep
    \/ ChunkEnd
    \/ EmbedAttempt
    \/ DeleteOld
    \/ UpsertBegin
    \/ UpsertBatch
    \/ Cleanup
    \/ QueryReceive
    \/ QueryValidate
    \/ QueryEmbed
    \/ QuerySearch
    \/ QueryAnswer
    \/ QueryGenerate

Spec == Init /\ [][Next]_vars

----------------------------------------------------------------------------
(* generateAnswer on its own *)

\* The scores of the hits generateAnswer is called with.
GenScores == {-100, 0, 300, 301, 400, 500, 600, 601, 750, 751, 850, 950}

MkHit(k, score) ==
    [id |-> <<0, k>>, score |-> score,
     payload |-> [text |-> <<<<"a", 5>>>>, doc_id |-> DocD, page |-> k,
                  chunk_index |-> 0]]

\* The hit sequences of at most MaxHits hits, in any order of score.
HitLists ==
    UNION { {[k \in 1..n |-> MkHit(k, f[k])] : f \in [1..n -> GenScores]} :
            n \in 0..MaxHits }

GenQuestions ==
    { <<"hello">>, Phrase(<<"see", "you">>), <<"thanks">>,
      Phrase(<<"what", "is", "x">>), <<" ">> }

\* generateAnswer(question, hits) is called.
GenInit ==
    /\ store = {}
    /\ nReq = 0
    /\ pc = "qanswer"
    /\ body = NoBody
    /\ store0 = {}
    /\ calls = <<"generateAnswer">>
    /\ documentExists = FALSE
    /\ pages = <<>>
    /\ pageIx = 0
    /\ allChunks = <<>>
    /\ loop = NoLoop
    /\ embedded = <<>>
    /\ attempt = 0
    /\ upsertAt = 0
    /\ thrown = ""
    /\ resp = NoResp
    /\ \E q \in GenQuestions : query = MkQuery(<<q>>, <<>>, <<>>, <<>>)
    /\ queryEmbedding = [len |-> VECTOR_SIZE, finite |-> TRUE]
    /\ searchResults = <<>>
    /\ hits \in HitLists
    /\ qresp = NoAnswer
    /\ client = 1
    /\ context = NoContext
    /\ collection = VECTOR_SIZE

GenNext ==
    \/ QueryAnswer
    \/ QueryGenerate

GenSpec == GenInit /\ [][GenNext]_vars

----------------------------------------------------------------------------
(* chunkText on its own: one call on one text with the caller's options *)

MaxText == 5

\* Texts of letters and blanks, with the number of tokens the tokenizer finds.
Texts == UNION {[1..n -> {"a", " "}] : n \in 1..MaxText}

UnitPages ==
    {[page |-> 1, text |-> t, ntok |-> n] : t \in Texts, n \in 1..MaxText}

UnitOptions == Opt({2, 3}) \X Opt(0..3)

ChunkInit ==
    /\ store = {}
    /\ nReq = 1
    /\ pc = "chunk"
    /\ \E o \in UnitOptions : body = MkBody(<<DocD>>, <<PdfOk>>, <<>>, o[1], o[2])
    /\ store0 = {}
    /\ calls = <<"search", "extract">>
    /\ documentExists = FALSE
    /\ \E p \in UnitPages : p.ntok <= Len(p.text) /\ pages = <<p>>
    /\ pageIx = 1
    /\ allChunks = <<>>
    /\ loop = NoLoop
    /\ embedded = <<>>
    /\ attempt = 0
    /\ upsertAt = 0
    /\ thrown = ""
    /\ resp = NoResp
    /\ query = NoQuery
    /\ queryEmbedding = [len |-> 0, finite |-> TRUE]
    /\ searchResults = <<>>
    /\ hits = <<>>
    /\ qresp = NoAnswer
    /\ client = 1
    /\ context = NoContext
    /\ collection = VECTOR_SIZE

ChunkNext ==
    \/ ChunkBegin
    \/ ChunkStep

ChunkSpec == ChunkInit /\ [][ChunkNext]_vars

----------------------------------------------------------------------------
(* upsertVectors on its own: one call on a list of points *)

GoodPoint(k) ==
    [id |-> <<DocD, 1, k>>, text |-> <<"a">>, doc_id |-> DocD, page |-> 1,
     chunk_index |-> k, vector |-> Vec(VECTOR_SIZE, TRUE)]

PointFaults ==
    {"no vector", "dimension", "not finite", "no id", "no text", "no doc_id",
     "long id"}

BadPoint(k, fault) ==
    CASE fault = "no vector" -> [GoodPoint(k) EXCEPT !.vector = Vec(0, TRUE)]
      [] fault = "dimension" ->
           [GoodPoint(k) EXCEPT !.vector = Vec(VECTOR_SIZE + 1, TRUE)]
      [] fault = "not finite" ->
           [GoodPoint(k) EXCEPT !.vector = Vec(VECTOR_SIZE, FALSE)]
      [] fault = "no id" -> [GoodPoint(k) EXCEPT !.id = <<>>]
      [] fault = "no text" -> [GoodPoint(k) EXCEPT !.text = <<>>]
      [] fault = "no doc_id" -> [GoodPoint(k) EXCEPT !.doc_id = <<>>]
      [] fault = "long id" ->
           [GoodPoint(k) EXCEPT !.id = <<Rep("a", MaxIdLength), 1, k>>]

\* Lists of points, all good or with one bad point at position b.
PointLists ==
    { [k \in 1..n |-> IF k = b THEN BadPoint(k, f) ELSE GoodPoint(k)] :
        n \in {1, 2, BATCH_SIZE, BATCH_SIZE + 1, 2 * BATCH_SIZE + 1},
        b \in {0, 1, 2, BATCH_SIZE, BATCH_SIZE + 1, BATCH_SIZE + 2},
        f \in PointFaults }

\* upsertVectors(points) is called.
UpsertInit ==
    /\ store = {}
    /\ nReq = 1
    /\ pc = "upsert"
    /\ body = MkBody(<<DocD>>, <<PdfOk>>, <<>>, <<>>, <<>>)
    /\ store0 = {}
    /\ calls = <<>>
    /\ documentExists = FALSE
    /\ pages = <<>>
    /\ pageIx = 0
    /\ allChunks = <<>>
    /\ loop = NoLoop
    /\ embedded \in PointLists
    /\ attempt = 0
    /\ upsertAt = 0
    /\ thrown = ""
    /\ resp = NoResp
    /\ query = NoQuery
    /\ queryEmbedding = [len |-> 0, finite |-> TRUE]
    /\ searchResults = <<>>
    /\ hits = <<>>
    /\ qresp = NoAnswer
    /\ client = 1
    /\ context = NoContext
    /\ collection = VECTOR_SIZE

UpsertNext ==
    \/ UpsertBegin
    \/ UpsertBatch

UpsertSpec == UpsertInit /\ [][UpsertNext]_vars

----------------------------------------------------------------------------
(* embedQuery on its own: one call on one string *)

QueryStrings ==
    { <<>>, <<" ">>, <<" ", " ">>, <<"hello">>, <<" ", "Hello", "!">>,
      <<"thanks">>, Phrase(<<"hello", "world">>), Phrase(<<"what", "is", "x">>) }

\* embedQuery(query) is called.
EmbedQueryInit ==
    /\ store = {}
    /\ nReq = 0
    /\ pc = "qembed"
    /\ body = NoBody
    /\ store0 = {}
    /\ calls = <<"embedQuery">>
    /\ documentExists = FALSE
    /\ pages = <<>>
    /\ pageIx = 0
    /\ allChunks = <<>>
    /\ loop = NoLoop
    /\ embedded = <<>>
    /\ attempt = 1
    /\ upsertAt = 0
    /\ thrown = ""
    /\ resp = NoResp
    /\ \E q \in QueryStrings : query = MkQuery(<<q>>, <<>>, <<>>, <<>>)
    /\ queryEmbedding = [len |-> 0, finite |-> TRUE]
    /\ searchResults = <<>>
    /\ hits = <<>>
    /\ qresp = NoAnswer
    /\ client = 1
    /\ context = NoContext
    /\ collection = VECTOR_SIZE

EmbedQueryNext == QueryEmbed

EmbedQuerySpec == EmbedQueryInit /\ [][EmbedQueryNext]_vars

-----------------------------------------------------------------------------
(* searchVectors on its own: one call on one vector, topK and docId *)

\* A stored point of document d.
StoredPoint(r, k, d) ==
    [uuid |-> <<r, k>>, vector |-> Vec(VECTOR_SIZE, TRUE),
     original_id |-> <<d, 1, k>>, text |-> <<"a">>, doc_id |-> d, page |-> 1,
     chunk_index |-> k]

SearchStores ==
    { {},
      {StoredPoint(1, k, DocD) : k \in 0..1},
      {StoredPoint(1, k, DocD) : k \in 0..2} \cup {StoredPoint(2, k, DocE) : k \in 0..2} }

SearchVectors == {Vec(0, TRUE), Vec(VECTOR_SIZE, TRUE), Vec(VECTOR_SIZE, FALSE)}

SearchTopKs == {-1, 0, 1, 3, MaxSearchTopK, MaxSearchTopK + 1}

\* searchVectors(vector, topK, docId) is called.
SearchInit ==
    /\ store \in SearchStores
    /\ nReq = 0
    /\ pc = "qsearch"
    /\ body = NoBody
    /\ store0 = store
    /\ calls = <<>>
    /\ documentExists = FALSE
    /\ pages = <<>>
    /\ pageIx = 0
    /\ allChunks = <<>>
    /\ loop = NoLoop
    /\ embedded = <<>>
    /\ attempt = 1
    /\ upsertAt = 0
    /\ thrown = ""
    /\ resp = NoResp
    /\ \E k \in Opt(SearchTopKs), d \in Opt({<<>>, DocD, DocE}) :
         query = MkQuery(<<<<"hello">>>>, k, d, <<>>)
    /\ queryEmbedding \in SearchVectors
    /\ searchResults = <<>>
    /\ hits = <<>>
    /\ qresp = NoAnswer
    /\ client = 1
    /\ context = NoContext
    /\ collection = VECTOR_SIZE

SearchNext == QuerySearch

SearchSpec == SearchInit /\ [][SearchNext]_vars

-----------------------------------------------------------------------------
(* buildContext on its own: generateAnswer called on hits that all survive *)

\* Hits in a call of buildContext on its own.
MaxContextHits == 10

\* Payload texts: empty, short, with blanks and characters that are removed,
\* long, and longer than the limit with a full stop in them.
ContextTexts ==
    { <<>>,
      <<<<"a", 5>>>>,
      <<<<" ", 3>>, <<"a", 400>>, <<"#", 10>>, <<" ", 2>>>>,
      <<<<"a", 870>>>>,
      <<<<"a", 300>>, <<".", 1>>, <<"a", 699>>>>,
      <<<<"a", 500>>, <<".", 1>>, <<"a", 1000>>>> }

\* The k-th hit of a list: its score rises, falls or stays with k, its page
\* is its own or shared with a neighbour.
ContextHit(k, text, docLength, order, paired) ==
    [id |-> <<0, k>>,
     score |-> CASE order = "rising" -> 800 + 10 * k
                 [] order = "falling" -> 950 - 10 * k
                 [] OTHER -> 900,
     payload |-> [text |-> text, doc_id |-> Rep("a", docLength),
                  page |-> IF paired THEN (k + 1) \div 2 ELSE k,
                  chunk_index |-> k]]

ContextHitLists ==
    { [k \in 1..n |-> ContextHit(k, text, docLength, order, paired)] :
        n \in 0..MaxContextHits, text \in ContextTexts,
        docLength \in {1, DocIdMaxLength},
        order \in {"rising", "falling", "level"}, paired \in BOOLEAN }

\* generateAnswer(question, hits) is called.
ContextInit ==
    /\ store = {}
    /\ nReq = 0
    /\ pc = "qanswer"
    /\ body = NoBody
    /\ store0 = {}
    /\ calls = <<"generateAnswer">>
    /\ documentExists = FALSE
    /\ pages = <<>>
    /\ pageIx = 0
    /\ allChunks = <<>>
    /\ loop = NoLoop
    /\ embedded = <<>>
    /\ attempt = 0
    /\ upsertAt = 0
    /\ thrown = ""
    /\ resp = NoResp
    /\ query = MkQuery(<<Phrase(<<"what", "is", "x">>)>>, <<>>, <<>>, <<>>)
    /\ queryEmbedding = [len |-> VECTOR_SIZE, finite |-> TRUE]
    /\ searchResults = <<>>
    /\ hits \in ContextHitLists
    /\ qresp = NoAnswer
    /\ client = 1
    /\ context = NoContext
    /\ collection = VECTOR_SIZE

ContextNext == QueryAnswer

ContextSpec == ContextInit /\ [][ContextNext]_vars

-----------------------------------------------------------------------------
(* Two ingest requests of one document at once.  Each handler runs up to its
   next await, where the other may run; pc and documentExists hold one value
   for each request, and the entries of calls name the request. *)

Requests == {1, 2}

\* The call c of request p, as the log holds it.
Call(p, c) == ToString(p) \o ":" \o c

\* The points upsertVectors makes of request p's chunks, each with a UUID of
\* its own: one chunk for request 1, two for request 2.
RacePoints(p) == {StoredPoint(p, k, doc_id) : k \in 0..(p - 1)}

\* An earlier version of the document, and the points of another document.
OldPoints == {StoredPoint(0, 0, DocD), StoredPoint(0, 0, DocE)}

\* What no step of the two handlers changes.
raceRest == <<nReq, body, store0, pages, pageIx, allChunks, loop, embedded,
              attempt, upsertAt, thrown, resp, qvars, client, collection,
              context>>

\* Both requests have been received: the same doc_id and the same value of
\* overwrite.
RaceInit ==
    /\ store \in {{}, OldPoints}
    /\ nReq = 2
    /\ pc = [p \in Requests |-> "probe"]
    /\ \E o \in BOOLEAN : body = MkBody(<<DocD>>, <<PdfOk>>, <<o>>, <<>>, <<>>)
    /\ store0 = store
    /\ calls = <<>>
    /\ documentExists = [p \in Requests |-> FALSE]
    /\ pages = <<>>
    /\ pageIx = 0
    /\ allChunks = <<>>
    /\ loop = NoLoop
    /\ embedded = <<>>
    /\ attempt = 0
    /\ upsertAt = 0
    /\ thrown = ""
    /\ resp = NoResp
    /\ query = NoQuery
    /\ queryEmbedding = [len |-> 0, finite |-> TRUE]
    /\ searchResults = <<>>
    /\ hits = <<>>
    /\ qresp = NoAnswer
    /\ client = 1
    /\ context = NoContext
    /\ collection = VECTOR_SIZE

\* The existence check of one request; a check that throws is ignored.
\* Without overwrite a document that is found ends the request with
\* DOCUMENT_EXISTS.
RaceProbe ==
    \E p \in Requests, ok \in BOOLEAN :
        LET found == ok /\ \E h \in SearchHits(store, 1, doc_id) : h # {}
        IN  /\ pc[p] = "probe"
            /\ documentExists' =
                  [documentExists EXCEPT ![p] = overwrite /\ found]
            /\ store' = StoreAfterProbe(store, doc_id, overwrite /\ found)
            /\ pc' = [pc EXCEPT ![p] = IF ~overwrite /\ found THEN "failed"
                                       ELSE "embed"]
            /\ calls' = Append(calls, Call(p, IF ok THEN "search"
                                              ELSE "search failed"))
            /\ UNCHANGED raceRest

\* Extraction, chunking and embedding of one request: no call of the store.
RaceEmbed ==
    \E p \in Requests, ok \in BOOLEAN :
        /\ pc[p] = "embed"
        /\ pc' = [pc EXCEPT ![p] = IF ~ok THEN "failed"
                                   ELSE IF overwrite /\ documentExists[p]
                                   THEN "delete" ELSE "upsert"]
        /\ calls' = Append(calls, Call(p, "embedded"))
        /\ UNCHANGED <<store, documentExists>>
        /\ UNCHANGED raceRest

\* The delete of the previous version by one request; a delete that throws
\* is ignored.
RaceDelete ==
    \E p \in Requests, ok \in BOOLEAN :
        /\ pc[p] = "delete"
        /\ store' = AfterDelete(store, doc_id, ok)
        /\ pc' = [pc EXCEPT ![p] = "upsert"]
        /\ calls' = Append(calls, Call(p, "delete"))
        /\ UNCHANGED documentExists
        /\ UNCHANGED raceRest

\* upsertVectors of one request: its batch is stored, or the upsert throws.
RaceUpsert ==
    \E p \in Requests, ok \in BOOLEAN :
        /\ pc[p] = "upsert"
        /\ store' = IF ok THEN store \cup RacePoints(p) ELSE store
        /\ pc' = [pc EXCEPT ![p] = IF ok THEN "done" ELSE "cleanup"]
        /\ calls' = Append(calls, Call(p, "upsert"))
        /\ UNCHANGED documentExists
        /\ UNCHANGED raceRest

\* The cleanup delete of a request whose upsert threw.
RaceCleanup ==
    \E p \in Requests, ok \in BOOLEAN :
        /\ pc[p] = "cleanup"
        /\ store' = AfterDelete(store, doc_id, ok)
        /\ pc' = [pc EXCEPT ![p] = "failed"]
        /\ calls' = Append(calls, Call(p, "cleanup"))
        /\ UNCHANGED documentExists
        /\ UNCHANGED raceRest

RaceNext ==
    \/ RaceProbe
    \/ RaceEmbed
    \/ RaceDelete
    \/ RaceUpsert
    \/ RaceCleanup

RaceSpec == RaceInit /\ [][RaceNext]_vars

\* The handler's steps are taken whenever they can be: the runtime resumes
\* a handler when the call it awaits settles, and every remote call settles.
Handler ==
    \/ Validate
    \/ Probe
    \/ Decode
    \/ Extract
    \/ ChunkBegin
    \/ ChunkStep
    \/ ChunkEnd
    \/ EmbedAttempt
    \/ DeleteOld
    \/ UpsertBegin
    \/ UpsertBatch
    \/ Cleanup
    \/ QueryValidate
    \/ QueryEmbed
    \/ QuerySearch
    \/ QueryAnswer
    \/ QueryGenerate

FairSpec == Spec /\ WF_vars(Handler)

----------------------------------------------------------------------------
(* Properties of POST /ingest *)

Has(c) == \E k \in 1..Len(calls) : calls[k] = c
Count(c) == Cardinality({k \in 1..Len(calls) : calls[k] = c})
FirstIndex(c) == CHOOSE k \in 1..Len(calls) :
                    calls[k] = c /\ \A j \in 1..(k - 1) : calls[j] # c

\* The calls that write to the vector store.
Mutating == {"delete", "upsert", "cleanup", "emergency"}

\* The points the current request has put in the store.
Written == {p \in store : p.uuid[1] = nReq}

\* The points a complete ingestion of the current request's chunks stores.
NewVersion == {MkPoint(embedded[k], k) : k \in 1..Len(embedded)}

\* embedChunks was called and did not return the vectors of all chunks.
EmbeddingFailed == pc \in Terminal /\ Has("embed") /\ ~Has("embedded")

\* C1: when embedding fails for any chunk, the request ends with
\* EMBEDDING_ERROR, the store is what it was when the request arrived, and
\* the request has issued no delete and no upsert.
C1_IngestionAtomicity ==
    EmbeddingFailed =>
        /\ resp.code = "EMBEDDING_ERROR"
        /\ store = store0
        /\ \A k \in 1..Len(calls) : calls[k] \notin Mutating

\* An overwrite of a stored document whose second embedding batch failed
\* after the first had succeeded.
C1_Witness ==
    /\ EmbeddingFailed
    /\ overwrite
    /\ documentExists
    /\ PointsOf(store0, doc_id) # {}
    /\ Len(embedded) = MAX_BATCH_SIZE
    /\ Len(allChunks) > MAX_BATCH_SIZE

\* C2: no mutating call on the vector store precedes the return of
\* embedChunks with the vectors of all chunks; and when overwrite is true
\* and the document existed, the delete of its previous vectors is issued
\* before the first upsert.
C2_WriteOrdering ==
    /\ \A k \in 1..Len(calls) :
         calls[k] \in Mutating => \E j \in 1..(k - 1) : calls[j] = "embedded"
    /\ (Has("upsert") /\ overwrite /\ PointsOf(store0, doc_id) # {}) =>
         \E k \in 1..Len(calls) : calls[k] = "delete" /\ k < FirstIndex("upsert")

BadVector(v) == v.len # VECTOR_SIZE \/ ~v.finite

\* C3: when an embedded chunk's vector has a length other than VECTOR_SIZE
\* or a non-finite value, the ingestion is rejected before any storage
\* write: at the rejection neither the delete of the existing document nor
\* any upsert has been issued.
C3_RejectedBeforeWrite ==
    (/\ pc = "cleanup"
     /\ \/ Includes(thrown, "Invalid vector dimension")
        \/ Includes(thrown, "Invalid vector values")
     /\ \E k \in 1..Len(embedded) : BadVector(embedded[k].vector)) =>
        /\ ~Has("delete")
        /\ store = store0

\* C4: after a successful ingest with overwrite = true of a document the
\* store held, the document's points are exactly those of the new
\* ingestion, also when the existence check or the delete reported an error.
C4_OverwriteReplaces ==
    (pc = "done" /\ overwrite /\ PointsOf(store0, doc_id) # {}) =>
        PointsOf(store, doc_id) = NewVersion

\* C5: an ingest without overwrite of a document that has a vector in the
\* store fails with DOCUMENT_EXISTS and leaves the store as it was, also
\* when the existence probe itself errors.
C5_DocumentExists ==
    (/\ pc \in Terminal
     /\ Has("search")
     /\ ~overwrite
     /\ body.pdf_base64[1].bytes <= maxSize
     /\ PointsOf(store0, doc_id) # {}) =>
        /\ resp.code = "DOCUMENT_EXISTS"
        /\ store = store0

\* upsertVectors was called and threw.
UpsertFailed == pc = "failed" /\ Has("upsert")

\* C6: when upsertVectors fails, the route issues exactly one cleanup
\* delete, as its last call, and answers STORAGE_ERROR with the message of
\* the upsert's error, whether or not the cleanup delete itself failed.
C6_CleanupThenStorageError ==
    UpsertFailed =>
        /\ resp.status = 500
        /\ resp.code = "STORAGE_ERROR"
        /\ resp.error =
             "Vector storage failed: " \o thrown \o ". No data has been stored."
        /\ \E msg \in {"Qdrant initialization failed", "Collection not accessible",
                         "Invalid vector", "Invalid vector dimension",
                         "Invalid vector values", "Missing required fields",
                         "Point ID too long", "Vector upsert failed"} :
              Includes(thrown, msg)
        /\ Count("cleanup") = 1
        /\ calls[Len(calls)] = "cleanup"
        /\ \A k \in (FirstIndex("upsert") + 1)..(Len(calls) - 1) :
              Includes(calls[k], "client.upsert")
        /\ ~Has("emergency")

\* The remote upsert failed, its first point went through alone, and the
\* cleanup delete failed too: the point is still there.
C6_Witness ==
    /\ UpsertFailed
    /\ thrown = "Vector upsert failed"
    /\ Written # {}
    /\ resp.code = "STORAGE_ERROR"

ValidationCodes ==
    {"VALIDATION_ERROR", "INVALID_DOC_ID", "INVALID_PDF_DATA", "INVALID_BASE64",
     "DECODE_ERROR", "FILE_TOO_LARGE"}

\* C7: a request that fails input validation is rejected with 400 (413 for
\* an oversize document) before any external call: no vector search, no
\* extraction and no embedding call precedes the rejection.
C7_ValidationBeforeCalls ==
    resp.code \in ValidationCodes =>
        /\ resp.status = IF resp.code = "FILE_TOO_LARGE" THEN 413 ELSE 400
        /\ calls = <<>>

\* C8: an extraction that yields no pages fails the ingest with EMPTY_PDF;
\* pages that are all blank, or that give no chunk, fail it with NO_CHUNKS;
\* in both cases no embedding call and no store write is made.
C8_EmptyDocument ==
    /\ (/\ pc \in Terminal
        /\ thrown = "PDF extraction failed: PDF service returned no pages") =>
          resp.code = "EMPTY_PDF"
    /\ (/\ pc \in Terminal
        /\ pages # <<>>
        /\ pageIx > Len(pages)
        /\ allChunks = <<>>) =>
          resp.code = "NO_CHUNKS"
    /\ (/\ pc \in Terminal
        /\ \/ thrown = "PDF extraction failed: PDF service returned no pages"
           \/ resp.code \in {"EMPTY_PDF", "NO_CHUNKS"}) =>
          /\ ~Has("embed")
          /\ store = store0

\* The stage of the ingestion state machine the handler is in.
Stage(p) ==
    CASE p \in {"validate", "probe", "decode"} -> "Validating"
      [] p = "extract" -> "Extracting"
      [] p \in {"chunk", "chunkloop"} -> "Chunking"
      [] p = "embed" -> "Embedding"
      [] p \in {"delete", "upsert", "upsertbatch", "cleanup"} -> "Committing"
      [] p = "done" -> "Done"
      [] p = "failed" -> "Failed"
      [] OTHER -> "Idle"

StageOrder ==
    {<<"Validating", "Extracting">>, <<"Extracting", "Chunking">>,
     <<"Chunking", "Embedding">>, <<"Embedding", "Committing">>,
     <<"Committing", "Done">>}

StageStep(a, b) ==
    \/ a = b /\ a \notin {"Done", "Failed"}
    \/ <<a, b>> \in StageOrder
    \/ a \notin {"Done", "Failed", "Idle"} /\ b = "Failed"

\* C9: a request moves through Validating, Extracting, Chunking, Embedding,
\* Committing, Done in that order, or from any stage to Failed; Done and
\* Failed are terminal, one of them is reached, and only Done answers with
\* success.
C9_StageMachine ==
    /\ [][nReq' = nReq => StageStep(Stage(pc), Stage(pc'))]_vars
    /\ [](resp.success => pc = "done")
    /\ [](pc = "validate" => <>(pc \in Terminal))

\* The requests that stay in Chunking are those whose step is not positive:
\* a request the schema rejects, or one with chunkSize - overlap > 0,
\* reaches Done or Failed.
PositiveStepTerminates ==
    []((pc = "validate" /\ (~SchemaAccepts(body) \/ chunkSize - overlap > 0))
         => <>(pc \in Terminal))

----------------------------------------------------------------------------
(* Properties of POST /query *)

\* The question is matched by one of the fixed conversational patterns.
Conversational(q) ==
    \/ isGreeting(Trim(toLowerCase(q)))
    \/ isConversational(Trim(toLowerCase(q)))

\* C10: a query whose question is matched by the fixed conversational
\* patterns (e.g. "hello") is answered with no sources and confidence 1.0
\* without retrieval: no query embedding call and no vector search is made
\* for it, whatever the store holds.
C10_ConversationalBypass ==
    (/\ pc \in QTerminal
     /\ QuerySchemaAccepts(query)
     /\ Conversational(question)) =>
        /\ qresp.success
        /\ qresp.sources = <<>>
        /\ qresp.confidence = 1000
        /\ ~Has("embedQuery")
        /\ ~Has("search")

\* The search of the current query returned its results.
SearchReturned ==
    Has("embedQuery") /\ Has("client.search") /\ thrown # "Failed to search vectors"

\* The positions of the search results whose score is at least min_score.
Surviving == {k \in 1..Len(searchResults) : searchResults[k].score >= min_score}

\* The j-th surviving position, in the order of the results.
NthSurviving(j) ==
    CHOOSE k \in Surviving : Cardinality({i \in Surviving : i <= k}) = j

\* C11: the hits handed to generateAnswer are exactly the search results
\* with score >= min_score, in the order the store returned them; when no
\* result survives, generateAnswer is not called and the response is a
\* success with confidence 0, no sources and total_results 0.
C11_FilteredHits ==
    /\ SearchReturned =>
         /\ Len(hits) = Cardinality(Surviving)
         /\ \A j \in 1..Len(hits) : hits[j] = searchResults[NthSurviving(j)]
    /\ Has("generateAnswer") <=> (SearchReturned /\ Surviving # {})
    /\ (SearchReturned /\ Surviving = {}) =>
         /\ pc = "qdone"
         /\ qresp.success
         /\ qresp.confidence = 0
         /\ qresp.sources = <<>>
         /\ qresp.total_results = 0

\* A search whose results partly pass min_score, one of them with a score
\* equal to it.
C11_Witness ==
    /\ SearchReturned
    /\ Has("generateAnswer")
    /\ Len(hits) < Len(searchResults)
    /\ \E j \in 1..Len(hits) : hits[j].score = min_score

\* A search none of whose results pass min_score.
C11_WitnessNone ==
    /\ SearchReturned
    /\ searchResults # <<>>
    /\ Surviving = {}
    /\ pc = "qdone"

\* The code that matches the invalid field of a query body, "" when every
\* field is valid.
MatchingCode(b) ==
    IF b.question = <<>> \/ Trim(b.question[1]) = <<>> THEN "INVALID_QUESTION"
    ELSE IF Length(b.question[1]) > MaxQuestionLength THEN "QUESTION_TOO_LONG"
    ELSE IF b.top_k # <<>> /\ (b.top_k[1] < 1 \/ b.top_k[1] > MaxTopK)
         THEN "INVALID_TOP_K"
    ELSE IF b.min_score # <<>> /\ (b.min_score[1] < 0 \/ b.min_score[1] > 1000)
         THEN "INVALID_MIN_SCORE"
    ELSE ""

\* C12: a query request with an invalid field (question missing, empty or
\* blank, question longer than 1000 characters, top_k outside 1..50,
\* min_score outside 0..1) is rejected with status 400 and the matching code
\* before any embedding, search or generation call.
C12_QueryValidation ==
    (pc \in QTerminal /\ MatchingCode(query) # "") =>
        /\ qresp.status = 400
        /\ qresp.code = MatchingCode(query)
        /\ calls = <<>>

----------------------------------------------------------------------------
(* Properties of generateAnswer *)

\* generateWithRetry returned its text to generateAnswer.
GenerationReturned == pc = "qdone" /\ Has("generateWithRetry")

\* The hits that survive the threshold, as calculateConfidence gets them.
SurvivingHits == SortByScore(relevantHits(hits))

\* C13: whenever the blended confidence of the surviving hits is below
\* 0.35, generateAnswer returns the fixed insufficient-information text with
\* confidence 0 and no sources, whatever text the generation API returned.
C13_ConfidenceFloor ==
    (GenerationReturned /\ calculateConfidence(SurvivingHits) < 350) =>
        /\ qresp.text = InsufficientText
        /\ qresp.confidence = 0
        /\ qresp.sources = <<>>

\* A generated text thrown away for a blended confidence between the
\* clamp's minimum and the floor.
C13_Witness ==
    /\ GenerationReturned
    /\ calculateConfidence(SurvivingHits) > 200
    /\ calculateConfidence(SurvivingHits) < 350
    /\ qresp.text = InsufficientText

\* generateAnswer was called with a non-empty question and no hits, and
\* has returned.
AnsweredNoHits ==
    /\ pc \in QTerminal
    /\ Has("generateAnswer")
    /\ hits = <<>>
    /\ Trim(question) # <<>>

\* C14: for every non-empty question, generateAnswer called with an empty
\* hits sequence returns the fixed no-relevant-information answer with
\* confidence 0 and no sources, and makes no call to the generation API.
C14_EmptyHits ==
    AnsweredNoHits =>
        /\ pc = "qdone"
        /\ qresp.text = NoHitsText
        /\ qresp.confidence = 0
        /\ qresp.sources = <<>>
        /\ ~Has("generateContent")

\* C14, amended: the same for every non-empty question that none of the
\* fixed conversational patterns matches.
C14_EmptyHitsNotConversational ==
    (AnsweredNoHits /\ ~Conversational(question)) =>
        /\ pc = "qdone"
        /\ qresp.text = NoHitsText
        /\ qresp.confidence = 0
        /\ qresp.sources = <<>>
        /\ ~Has("generateContent")

\* "what is x" with no hits.
C14_Witness ==
    /\ AnsweredNoHits
    /\ ~Conversational(question)
    /\ qresp.text = NoHitsText

\* generateAnswer is past its checks of the question, the conversational
\* short-circuit and the check for no hits.
PastShortCircuit ==
    /\ pc \in {"qgenerate"} \cup QTerminal
    /\ Has("generateAnswer")
    /\ hits # <<>>
    /\ Trim(question) # <<>>
    /\ handleSimpleGreetings(question, "") = ""

\* The maximum hit score, and the threshold the claim gives for it.
MaxHitScore ==
    CHOOSE m \in {hits[k].score : k \in 1..Len(hits)} :
        \A k \in 1..Len(hits) : hits[k].score <= m

ClaimedThreshold ==
    IF MaxHitScore > 750 THEN 500
    ELSE IF MaxHitScore > 600 THEN 400
    ELSE 300

\* The positions of the hits at or above the claimed threshold.
AtThreshold == {k \in 1..Len(hits) : hits[k].score >= ClaimedThreshold}

\* generateAnswer returned an answer built from the generated text.
AnsweredFromText == GenerationReturned /\ qresp.text # InsufficientText

NoSurvivor == PastShortCircuit /\ pc = "qdone" /\ AtThreshold = {}

\* Some hit is a decent one: its score is above 0.3.
SomeDecent == \E k \in 1..Len(hits) : hits[k].score > 300

\* C16: when hits is non-empty and no hit reaches the adaptive threshold, the
\* answer is the "possibly related" one with confidence <= 0.4 and at most 3
\* sources if some hit has score > 0.3, and the one with confidence 0 and no
\* sources if none has; the generation API is called in neither case.
C16_NoSurvivor ==
    NoSurvivor =>
        /\ SomeDecent =>
             /\ qresp.text = PossiblyRelatedText
             /\ qresp.confidence <= 400
             /\ Len(qresp.sources) <= 3
        /\ ~SomeDecent =>
             /\ qresp.text = NothingRelevantText
             /\ qresp.confidence = 0
             /\ qresp.sources = <<>>
        /\ ~Has("generateWithRetry")
        /\ ~Has("generateContent")

\* Two hits below 0.3, answered with confidence 0 and no sources.
C16_Witness ==
    /\ NoSurvivor
    /\ Len(hits) = 2
    /\ ~SomeDecent
    /\ qresp.text = NothingRelevantText
    /\ calls = <<"generateAnswer">>

\* A hit set whose maximum is above 0.6 has a hit at its threshold, and one
\* whose maximum is at most 0.6 has threshold 0.3, so that hits none of which
\* reaches the threshold have no score above 0.3: the "possibly related"
\* answer is never the one returned.
PossiblyRelatedNotReturned ==
    /\ NoSurvivor => ~SomeDecent
    /\ qresp.text # PossiblyRelatedText

\* C17: every answer generateAnswer returns has confidence in [0, 1]; the
\* value of calculateConfidence for a non-empty hit set is in [0.2, 0.95];
\* an answer built from generated text has confidence in [0.35, 0.95].
C17_ConfidenceRange ==
    /\ pc = "qdone" => qresp.confidence \in 0..1000
    /\ hits # <<>> => calculateConfidence(SortByScore(hits)) \in 200..950
    /\ relevantHits(hits) # <<>> =>
          calculateConfidence(SortByScore(relevantHits(hits))) \in 200..950
    /\ AnsweredFromText => qresp.confidence \in 350..950

\* An answer from generated text with confidence just above the floor of
\* 0.35, for a hit set whose blended value falls below 0.2 and is raised to it.
C17_Witness ==
    /\ AnsweredFromText
    /\ qresp.confidence < 400
    /\ calculateConfidence(SortByScore(hits)) = 200

----------------------------------------------------------------------------
(* Properties of chunkText *)

\* chunkText is in its loop on a text that is not blank.
Chunking == pc = "chunkloop" /\ Len(Trim(pages[pageIx].text)) > 0

\* chunkText's loop condition fails: the chunks pushed are the ones returned.
Returning == Chunking /\ loop.i >= loop.n

\* Where the window with index i starts in the text: at the character
\* proportional to its token index, or at its word.
StartOf(i) ==
    IF loop.mode = "token"
    THEN (i * Len(pages[pageIx].text)) \div loop.n
    ELSE i

\* C18: for a non-empty text and overlap < chunkSize, the chunks of chunkText
\* have chunk_index 0, 1, ..., n-1 without gap or repeat, each id is
\* "{docId}:{page}:{chunk_index}", no chunk text is empty, and the chunks'
\* start positions in the text do not decrease with chunk_index.
C18_ChunkInvariants ==
    (Chunking /\ overlap < chunkSize) =>
        /\ Len(loop.at) = Len(loop.chunks)
        /\ \A k \in 1..Len(loop.chunks) :
             /\ loop.chunks[k].chunk_index = k - 1
             /\ loop.chunks[k].id =
                  <<doc_id, pages[pageIx].page, loop.chunks[k].chunk_index>>
             /\ loop.chunks[k].text # <<>>
        /\ \A j, k \in 1..Len(loop.at) :
             j < k => StartOf(loop.at[j]) <= StartOf(loop.at[k])

\* chunkText returns two chunks or more after a window that trimmed to
\* nothing and was left out.
C18_Witness ==
    /\ Returning
    /\ overlap < chunkSize
    /\ Len(loop.chunks) >= 2
    /\ loop.iter > Len(loop.chunks)

\* C19: for every chunk_size and chunk_overlap the ingest route accepts,
\* chunking terminates: with chunkSize - overlap <= 0 the chunker fails fast
\* and never enters its loop, and otherwise the loop runs at most one
\* iteration for each token or word of the text.
C19_ChunkingTerminates ==
    (pc = "chunkloop" /\ SchemaAccepts(body)) =>
        /\ chunkSize - overlap > 0
        /\ loop.iter <= loop.n

\* The option the caller supplied, or the default when it is absent.
Supplied(option, default) == IF option = <<>> THEN default ELSE option[1]

\* C20: the windows of chunkText start at the indices 0, s, 2s, ... with
\* s = chunkSize - overlap for the chunkSize and the overlap the caller
\* supplied, the defaults 800 and 100 standing in only for an absent option:
\* a supplied overlap of 0 gives s = chunkSize.
C20_WindowStarts ==
    pc = "chunkloop" =>
        loop.i = loop.iter * (Supplied(body.chunk_size, DefaultChunkSize)
                              - Supplied(body.chunk_overlap, DefaultOverlap))

----------------------------------------------------------------------------
(* Properties of the embedding client *)

\* The client is in embedTextsWithGemini's loop, for a batch of chunks or for
\* a query.
Embedding == pc \in {"embed", "qembed"}

\* The calls a step adds to the log.
Added == SubSeq(calls', Len(calls) + 1, Len(calls'))

\* The remote attempts made so far for the batch in hand.
RECURSIVE AttemptsOfBatch(_)
AttemptsOfBatch(cs) ==
    IF cs = <<>> \/ cs[Len(cs)] \in {"embed", "embedQuery", "wait between batches"}
    THEN 0
    ELSE AttemptsOfBatch(SubSeq(cs, 1, Len(cs) - 1))
         + (IF cs[Len(cs)] = "embedContent" THEN 1 ELSE 0)

\* The request failed in the embedding client's loop.
EmbedLoopFailed ==
    /\ pc \in {"failed", "qfailed"}
    /\ calls # <<>>
    /\ calls[Len(calls)] = "embedContent"

\* C21: for one batch the embedding client makes at most 3 remote attempts;
\* a step of its loop makes one remote call; a step that tries again is not
\* the third, waits 2000 ms x 2^(k-1) after attempt k and goes on to attempt
\* k + 1; a step that ends the loop with vectors or with an error waits for
\* no retry; the third attempt is never followed by a fourth.
C21_EmbedRetries ==
    /\ [](Embedding => attempt \in 1..MAX_RETRIES
                       /\ AttemptsOfBatch(calls) = attempt - 1)
    /\ [](EmbedLoopFailed => AttemptsOfBatch(calls) \in 1..MAX_RETRIES)
    /\ [][Embedding =>
            /\ Added[1] = "embedContent"
            /\ IF pc' = pc /\ attempt' = attempt + 1
               THEN /\ attempt < MAX_RETRIES
                    /\ Added = <<"embedContent", Sleep(2000 * 2^(attempt - 1))>>
                    /\ embedded' = embedded
               ELSE /\ \A k \in 1..Len(Added) :
                         ~Includes(Added[k], "sleep")
                    /\ attempt' \in {attempt, 1}
                    /\ attempt' = 1 /\ attempt # 1 =>
                         /\ Len(embedded') > Len(embedded)
                         /\ pc' \notin {"failed", "qfailed"}
         ]_vars

\* The third attempt for a batch has failed after waits of 2000 ms and
\* 4000 ms, and the error is the request's answer.
C21_Witness ==
    /\ pc = "failed"
    /\ Includes(resp.error, "Embedding generation failed after attempts")
    /\ Len(calls) >= 5
    /\ SubSeq(calls, Len(calls) - 4, Len(calls)) =
         <<"embedContent", "sleep 2000", "embedContent", "sleep 4000",
           "embedContent">>

\* The message is of a 4xx answer other than 429, or of an exceeded quota.
ClientError(msg) ==
    \E status \in {"400", "401", "403", "404"} : Includes(msg, status)

QuotaExceeded(msg) == Includes(msg, "quota")

\* A step of the loop that goes on to another attempt; thrown' is the message
\* of the error it caught.
Retries == Embedding /\ pc' = pc /\ attempt' = attempt + 1

\* C22: in the embedding client an authentication/authorization error (4xx
\* other than 429) or a quota-exceeded error is never retried, the failing
\* attempt being the last remote call for the batch; a 429, a 5xx and a
\* network error are retried while attempts remain.
C22_NoRetryOnClientError ==
    /\ [][Retries => ~ClientError(thrown') /\ ~QuotaExceeded(thrown')]_vars
    /\ [](EmbedLoopFailed /\ thrown # "" /\ AttemptsOfBatch(calls) < MAX_RETRIES
            => ClientError(thrown) \/ QuotaExceeded(thrown))

\* The string is empty or made of whitespace only.
Blank(q) == \A k \in 1..Len(q) : q[k] = " "

\* C23: embedQuery called with an empty or whitespace-only string fails at
\* once, with no remote embedding call.
C23_EmptyQueryFails ==
    /\ []((Has("embedQuery") /\ Blank(question))
            => (~Has("embedContent") /\ pc \in {"qembed", "qfailed"}))
    /\ [][(pc = "qembed" /\ Blank(question))
            => (pc' = "qfailed" /\ thrown' = "Query cannot be empty"
                /\ calls' = calls)]_vars

\* embedQuery has failed on a string of two blanks.
C23_Witness ==
    /\ question = <<" ", " ">>
    /\ pc = "qfailed"
    /\ thrown = "Query cannot be empty"
    /\ calls = <<"embedQuery">>

\* The batch of embedChunksWithGemini the k-th chunk belongs to.
BatchOf(k) == (k - 1) \div MAX_BATCH_SIZE

\* embedChunks has returned to the route.
EmbedReturned == Has("embedded")

\* C24: embedChunks throws or returns exactly one EmbeddedChunk per input
\* chunk, in input order, each with a non-empty vector, the vectors of one
\* batch being of one length; a batch is accepted whole or not at all, and
\* when embedChunks throws the route gets no result and goes on to no write.
C24_EmbedAllOrNothing ==
    /\ [](/\ Len(embedded) <= Len(allChunks)
          /\ \A k \in 1..Len(embedded) :
               /\ embedded[k].id = allChunks[k].id
               /\ embedded[k].text = allChunks[k].text
               /\ embedded[k].chunk_index = allChunks[k].chunk_index
               /\ embedded[k].vector.len > 0
               /\ \A j \in 1..Len(embedded) :
                    BatchOf(j) = BatchOf(k) =>
                       embedded[j].vector.len = embedded[k].vector.len)
    /\ [](EmbedReturned => Len(embedded) = Len(allChunks))
    /\ [](EmbeddingFailed => ~Has("upsert") /\ ~Has("delete"))
    /\ [][pc = "embed" =>
            \/ embedded' = embedded
            \/ /\ Len(embedded') =
                    Min(Len(embedded) + MAX_BATCH_SIZE, Len(allChunks))
               /\ SubSeq(embedded', 1, Len(embedded)) = embedded]_vars

\* embedChunks returns eleven chunks in two batches whose vectors differ in
\* length from one batch to the other, after an attempt that was repeated.
C24_Witness ==
    /\ EmbedReturned
    /\ Len(embedded) = MAX_BATCH_SIZE + 1
    /\ embedded[1].vector.len # embedded[MAX_BATCH_SIZE + 1].vector.len
    /\ Has("sleep 2000")

----------------------------------------------------------------------------
(* Properties of the vector store client *)

\* The batch upsertVectors is at, and the positions of its points.
BatchAt == (upsertAt + 1)..Min(upsertAt + BATCH_SIZE, Len(embedded))

\* What upsertVectors asks of a point before it is sent.
ValidPoint(p) ==
    /\ p.vector.len > 0
    /\ p.vector.len = VECTOR_SIZE
    /\ p.vector.finite
    /\ p.id # <<>> /\ p.text # <<>> /\ p.doc_id # <<>>
    /\ IdLength(p.id) <= 255

\* The message ends with the words that name the point at index i of the batch.
NamesPoint(msg, i) ==
    LET words == " at batch index " \o ToString(i)
    IN  /\ Len(msg) >= Len(words)
        /\ SubSeq(msg, Len(msg) - Len(words) + 1, Len(msg)) = words

\* C25: upsertVectors validates every point of a batch before it sends the
\* batch: when a point of the batch is not valid, the step sends nothing,
\* leaves the store as it is and throws an error that names an offending
\* point; a batch is sent only when all its points are valid.
C25_ValidatedBeforeSent ==
    [][pc = "upsertbatch" =>
         IF \E k \in BatchAt : ~ValidPoint(embedded[k])
         THEN /\ calls' = calls
              /\ store' = store
              /\ pc' = "cleanup"
              /\ \E k \in BatchAt :
                   /\ ~ValidPoint(embedded[k])
                   /\ NamesPoint(thrown', k - upsertAt - 1)
         ELSE /\ Len(calls') > Len(calls)
              /\ calls'[Len(calls) + 1] = "client.upsert"]_vars

\* The second batch is rejected for its second point after the first batch
\* of 100 points was stored.
C25_Witness ==
    /\ pc = "cleanup"
    /\ upsertAt = BATCH_SIZE
    /\ Cardinality(store) = BATCH_SIZE
    /\ Len(embedded) >= BATCH_SIZE + 2
    /\ ~ValidPoint(embedded[BATCH_SIZE + 2])
    /\ NamesPoint(thrown, 1)
    /\ Count("client.upsert") = 1

\* The points of the batch upsertVectors is at, as they are stored.
PointsAt == {MkPoint(embedded[k], k) : k \in BatchAt}

\* C26: upsertVectors sends the points in batches of at most 100, in input
\* order, one remote call for a batch; when the remote upsert of a batch
\* fails no other remote upsert is issued, for the batch, a part of it or a
\* later batch, and the error propagates.
C26_NoRetryAfterFailure ==
    /\ [][pc = "upsertbatch" =>
            /\ Cardinality(BatchAt) <= 100
            /\ store' \ store \subseteq PointsAt
            /\ Len(calls') <= Len(calls) + 1
            /\ thrown' = "Vector upsert failed" =>
                 /\ store' = store
                 /\ pc' = "cleanup"]_vars
    /\ [](thrown = "Vector upsert failed" =>
            /\ pc \notin {"upsert", "upsertbatch"}
            /\ calls[Len(calls)] \in {"client.upsert", "cleanup"})

\* The arguments searchVectors refuses.
BadSearchArguments == queryEmbedding.len = 0 \/ top_k < 1 \/ top_k > 100

SearchFinished == pc \in {"qanswer", "qdone", "qfailed"} /\ Has("search")

\* The results are the points cand, as many as topK and the store allow, in
\* an order and with the scores the store gives them.
AsReceived(cand) ==
    \E profile \in ScoreProfiles, order \in {Ranked(cand), Reverse(Ranked(cand))} :
        /\ Len(searchResults) = Min(Min(top_k, Len(order)), Len(profile))
        /\ \A k \in 1..Len(searchResults) :
              /\ searchResults[k].id = order[k].uuid
              /\ searchResults[k].score = profile[k]

\* C27: searchVectors called with an empty vector or with topK outside 1..100
\* throws before any remote call; otherwise, when the store answers, it
\* returns the store's results in the order received, and only points of
\* doc_id when a doc_id is given.
C27_SearchContract ==
    SearchFinished =>
        /\ BadSearchArguments =>
              /\ pc = "qfailed"
              /\ thrown \in {"Search vector cannot be empty",
                             "topK must be between 1 and 100"}
              /\ ~Has("client.getCollection")
              /\ ~Has("client.search")
        /\ (~BadSearchArguments /\ pc # "qfailed") =>
              /\ Has("client.search")
              /\ AsReceived(IF query.doc_id = <<>> THEN store
                            ELSE PointsOf(store, query.doc_id[1]))
              /\ query.doc_id # <<>> =>
                    \A k \in 1..Len(searchResults) :
                        searchResults[k].payload.doc_id = query.doc_id[1]

\* The same with an empty doc_id taken as no doc_id.
C27_SearchContractNonEmptyDocId ==
    SearchFinished =>
        /\ BadSearchArguments =>
              /\ pc = "qfailed"
              /\ thrown \in {"Search vector cannot be empty",
                             "topK must be between 1 and 100"}
              /\ ~Has("client.getCollection")
              /\ ~Has("client.search")
        /\ (~BadSearchArguments /\ pc # "qfailed") =>
              /\ Has("client.search")
              /\ AsReceived(IF query.doc_id \in {<<>>, <<<<>>>>} THEN store
                            ELSE PointsOf(store, query.doc_id[1]))

-----------------------------------------------------------------------------
(* Properties of the answer generator's retry loop *)

Generating == pc = "qgenerate"

\* The calls of the generation API made by generateWithRetry so far.
GenerateAttempts ==
    Cardinality({k \in 1..Len(calls) :
                    /\ calls[k] = "generateContent"
                    /\ \E j \in 1..(k - 1) : calls[j] = "generateWithRetry"})

\* The message is of an authentication or a permission error.
AuthError(msg) ==
    \E word \in {"401", "403", "API_KEY", "permission", "UNAUTHENTICATED",
                  "PERMISSION_DENIED"} : Includes(msg, word)

\* C28: generateWithRetry calls the generation API at most 3 times for an
\* answer; a step of its loop makes one call; a step that tries again is not
\* the third, waits 1000 ms x attempt and has not caught an authentication or
\* permission error; an answer it returns is never blank; a step that ends in
\* an error has caught an authentication or permission error, or is the third
\* and reports the failure of the 3 attempts.
C28_GenerateRetries ==
    /\ [](Generating => attempt \in 1..3 /\ GenerateAttempts = attempt - 1)
    /\ [](GenerateAttempts <= 3)
    /\ [][Generating =>
            /\ Added[1] = "generateContent"
            /\ pc' = "qgenerate" =>
                  /\ attempt < 3
                  /\ attempt' = attempt + 1
                  /\ Added = <<"generateContent", Sleep(1000 * attempt)>>
                  /\ thrown' # ""
                  /\ ~AuthError(thrown')
            /\ pc' # "qgenerate" =>
                  /\ Added = <<"generateContent">>
                  /\ pc' \in {"qdone", "qfailed"}
            /\ pc' = "qdone" => thrown' = "" /\ ~BlankText(qresp'.text)
            /\ pc' = "qfailed" =>
                  \/ AuthError(thrown')
                  \/ /\ attempt = 3
                     /\ Includes(thrown', "Failed to generate response after 3 attempts")
         ]_vars

\* The same for the errors whose message holds API_KEY or permission.
C28_GenerateRetriesByMessage ==
    /\ [](Generating => attempt \in 1..3 /\ GenerateAttempts = attempt - 1)
    /\ [](GenerateAttempts <= 3)
    /\ [][Generating =>
            /\ Added[1] = "generateContent"
            /\ pc' = "qgenerate" =>
                  /\ attempt < 3
                  /\ attempt' = attempt + 1
                  /\ Added = <<"generateContent", Sleep(1000 * attempt)>>
                  /\ thrown' # ""
                  /\ ~NotRetried(thrown')
            /\ pc' # "qgenerate" =>
                  /\ Added = <<"generateContent">>
                  /\ pc' \in {"qdone", "qfailed"}
            /\ pc' = "qdone" => thrown' = "" /\ ~BlankText(qresp'.text)
            /\ pc' = "qfailed" =>
                  \/ NotRetried(thrown')
                  \/ /\ attempt = 3
                     /\ Includes(thrown', "Failed to generate response after 3 attempts")
         ]_vars

\* Three attempts have failed after waits of 1000 ms and 2000 ms.
GenerateGaveUp ==
    /\ pc = "qfailed"
    /\ Includes(thrown, "Failed to generate response after 3 attempts")
    /\ SubSeq(calls, Len(calls) - 4, Len(calls)) =
         <<"generateContent", "sleep 1000", "generateContent", "sleep 2000",
           "generateContent">>

-----------------------------------------------------------------------------
(* Properties of the vector store client's handle *)

\* C30: the client handle holds the QdrantClient that initQdrant assigned at
\* startup, and no step of an ingest or query handler assigns it again.
C30_HandleAssignedOnce ==
    /\ [](client = 1)
    /\ [][client' = client]_vars

-----------------------------------------------------------------------------
(* Properties of two ingest requests of one document at once *)

\* Both requests have answered with a success.
BothDone == \A p \in Requests : pc[p] = "done"

\* The request whose upsert comes last in the log.
LastWriter ==
    CHOOSE p \in Requests :
        \E k \in 1..Len(calls) :
            /\ calls[k] = Call(p, "upsert")
            /\ \A j \in (k + 1)..Len(calls) : ~Includes(calls[j], "upsert")

\* C29: once two concurrent overwrite requests for one doc_id have both
\* finished successfully, the store holds for that doc_id the chunks of the
\* request whose upsert completed last, and no others.
C29_LastWriterWins ==
    (overwrite /\ BothDone) => PointsOf(store, doc_id) = RacePoints(LastWriter)

\* The calls of the two requests interleave: both check before either
\* writes, and each deletes before the other upserts.
RaceInterleaved ==
    /\ BothDone
    /\ SelectSeq(calls, LAMBDA c : ~Includes(c, "embedded")) =
         <<"1:search", "2:search", "1:delete", "2:delete", "1:upsert", "2:upsert">>

-----------------------------------------------------------------------------
(* Properties of the stored vectors and of the collection's vector size *)

\* The step sends points to the store.
Sends == \E k \in 1..Len(Added) : Includes(Added[k], "client.upsert")

\* C31: every point upsertVectors has put in the store has a vector of
\* exactly VECTOR_SIZE finite numbers; a step that sends a batch sends only
\* such points; and no step changes the vector size the collection is
\* configured with.
C31_StoredVectors ==
    /\ [](\A p \in store : p.vector.len = VECTOR_SIZE /\ p.vector.finite)
    /\ [][(pc = "upsertbatch" /\ Sends) =>
            \A k \in BatchAt :
                embedded[k].vector.len = VECTOR_SIZE /\ embedded[k].vector.finite
         ]_vars
    /\ [][collection' = collection]_vars

\* A request has stored its points after initQdrant() had run again and
\* found the collection.
C31_Witness ==
    /\ pc = "done"
    /\ Written # {}
    /\ client > 1

\* A batch with a vector of another size was refused after the batch before
\* it had been stored.
C31_WitnessRefused ==
    /\ Includes(thrown, "Invalid vector dimension")
    /\ store # {}

-----------------------------------------------------------------------------
(* Properties of the ingest error responses *)

\* The request was answered with an error.
IngestFailed == pc = "failed"

\* C32: a failed ingest answers with a code and an error message; when the
\* message says that no data has been stored, the store holds no point the
\* request has written, and when it says "or modified", the points of doc_id
\* are those the store held when the request arrived.
C32_ErrorResponseTruthful ==
    IngestFailed =>
        /\ ~resp.success
        /\ resp.code # ""
        /\ resp.error # ""
        /\ Includes(resp.error, "No data has been stored") => Written = {}
        /\ Includes(resp.error, "or modified") =>
              PointsOf(store, doc_id) = PointsOf(store0, doc_id)

\* The same for the answers given before upsertVectors is called.
C32_TruthfulBeforeUpsert ==
    (IngestFailed /\ ~Has("upsert")) =>
        /\ ~resp.success
        /\ resp.code # ""
        /\ resp.error # ""
        /\ Includes(resp.error, "No data has been stored") => Written = {}
        /\ Includes(resp.error, "or modified") =>
              PointsOf(store, doc_id) = PointsOf(store0, doc_id)

-----------------------------------------------------------------------------
(* Properties of buildContext *)

\* generateAnswer has built the context of its prompt.
ContextBuilt == pc = "qgenerate"

DocKey(hit) == <<hit.payload.doc_id, hit.payload.page>>

\* At most 8 blocks, one for a doc_id and page at most, each of the best
\* surviving hit of its doc_id and page, in falling order of score.
ContextBlocksRight ==
    LET blocks == context.blocks
        surviving == relevantHits(hits)
    IN  /\ Len(blocks) <= 8
        /\ \A i, j \in 1..Len(blocks) :
              i < j => /\ DocKey(blocks[i].hit) # DocKey(blocks[j].hit)
                       /\ blocks[i].hit.score >= blocks[j].hit.score
        /\ \A i \in 1..Len(blocks) :
              /\ \E k \in 1..Len(surviving) : surviving[k] = blocks[i].hit
              /\ \A k \in 1..Len(surviving) :
                    DocKey(surviving[k]) = DocKey(blocks[i].hit) =>
                        surviving[k].score <= blocks[i].hit.score

\* C33: the context buildContext makes of the surviving hits has at most 8
\* source blocks, at most one for a doc_id and page, that of the pair's
\* highest-scoring hit, in descending order of score, and the context string
\* has at most 8000 characters.
C33_ContextBounded ==
    ContextBuilt => ContextBlocksRight /\ context.length <= 8000

\* The same without the length of the string.
C33_ContextBlocks == ContextBuilt => ContextBlocksRight

\* The string has at most 8000 characters when the source lines leave the
\* last block room: a doc_id of one character.
C33_ContextBoundedShortNames ==
    (ContextBuilt /\ \A k \in 1..Len(hits) : Len(hits[k].payload.doc_id) = 1) =>
        context.length <= 8000

----------------------------------------------------------------------------
(* Duplicates of a chunk id *)

\* Every chunk id is the id of at most one stored point.
OnePointPerChunkId ==
    \A p, q \in store : p.original_id = q.original_id => p = q

\* C34: an upsert of a chunk whose id is already stored replaces the stored
\* point, so an overwrite ingest that went on after its delete step failed
\* leaves at most one stored point for every chunk id.
C34_UpsertReplacesDuplicates ==
    (pc = "done" /\ overwrite /\ Has("delete")) => OnePointPerChunkId

\* The same for the ingests whose delete step removed the previous version.
C34_OnePointAfterDelete ==
    (/\ pc = "done"
     /\ overwrite
     /\ Has("delete")
     /\ PointsOf(store, doc_id) \subseteq Written) => OnePointPerChunkId

----------------------------------------------------------------------------
(* Survivors of the adaptive threshold *)

\* generateAnswer found a hit to build the context from: it went on to the
\* generation.
SomeSurvivor == Has("generateWithRetry")

\* C35: of a non-empty sequence of hits, no hit survives the adaptive
\* threshold if and only if the maximum score is below 0.3: a hit of maximum
\* score at least 0.3 survives, and when no hit survives no hit has a score
\* above 0.3.
C35_SurvivorsAndMaximum ==
    PastShortCircuit =>
        /\ ~SomeSurvivor <=> MaxHitScore < 300
        /\ relevantHits(hits) = <<>> <=> MaxHitScore < 300
        /\ MaxHitScore >= 300 =>
             \E k \in 1..Len(relevantHits(hits)) :
                relevantHits(hits)[k].score = MaxHitScore
        /\ ~SomeSurvivor => ~SomeDecent /\ qresp.text = NothingRelevantText

\* Hits whose maximum is exactly 0.3: the hit at 0.3 survives and the
\* generation is attempted.
C35_Witness ==
    /\ PastShortCircuit
    /\ MaxHitScore = 300
    /\ Len(hits) > 1
    /\ SomeSurvivor

\* Hits all below 0.3, answered without generation.
C35_WitnessNone ==
    /\ PastShortCircuit
    /\ MaxHitScore = 0
    /\ pc = "qdone"
    /\ ~SomeSurvivor

----------------------------------------------------------------------------
(* The order of the hits *)

\* The hits with a hit of the highest score moved to the front.
MaxFirst(hs) ==
    LET k == CHOOSE j \in 1..Len(hs) : hs[j].score = MaxScore(hs)
    IN  <<hs[k]>> \o SubSeq(hs, 1, k - 1) \o SubSeq(hs, k + 1, Len(hs))

\* C36: in whatever order the hits are passed to generateAnswer, the top-hit
\* score of the confidence blend is the maximum score of the surviving hits,
\* and the sources of a generated answer are in descending order of score.
C36_OrderIndependent ==
    (PastShortCircuit /\ AnsweredFromText) =>
        /\ qresp.confidence = calculateConfidence(MaxFirst(relevantHits(hits)))
        /\ \A i, j \in 1..Len(qresp.sources) :
              i < j => qresp.sources[i].relevanceScore >=
                          qresp.sources[j].relevanceScore
        /\ qresp.sources[1].relevanceScore = MaxHitScore

\* An answer generated from hits passed in ascending order of score, all of
\* which survive.
C36_Witness ==
    /\ PastShortCircuit
    /\ AnsweredFromText
    /\ Len(hits) = 3
    /\ Len(qresp.sources) = 3
    /\ hits[1].score < hits[2].score
    /\ hits[2].score < hits[3].score

----------------------------------------------------------------------------
(* Two requests without overwrite *)

\* The log holds the call c.
Logged(c) == \E k \in 1..Len(calls) : calls[k] = c

\* C37: of two concurrent ingest requests with overwrite = false for one
\* doc_id that the store does not hold, at most one succeeds and writes its
\* chunks: the store never holds the chunks of both.  The existence checks
\* of both requests run without error.
C37_AtMostOneIngests ==
    (/\ ~overwrite
     /\ PointsOf(store0, doc_id) = {}
     /\ \A p \in Requests : ~Logged(Call(p, "search failed"))) =>
        /\ ~BothDone
        /\ ~(RacePoints(1) \cup RacePoints(2) \subseteq store)

\* One after the other, the second request is refused: a request whose
\* check ran without error after the other's upsert had stored its points
\* does not succeed.
C37_SecondRefusedInSequence ==
    \A p, q \in Requests :
        (/\ ~overwrite
         /\ p # q
         /\ \E i, j \in 1..Len(calls) :
               /\ calls[i] = Call(p, "upsert")
               /\ calls[j] = Call(q, "search")
               /\ i < j
         /\ RacePoints(p) \subseteq store) => pc[q] # "done"

----------------------------------------------------------------------------
(* What a request without overwrite leaves in place *)

\* C38: an ingest request with overwrite = false removes no vector that was
\* stored for its doc_id before the request began: on every path, also an
\* upsert failure followed by the cleanup delete, those vectors are in the
\* store when the request ends.
C38_KeepsWithoutOverwrite ==
    (pc \in Terminal /\ Has("search") /\ ~overwrite) =>
        PointsOf(store0, doc_id) \subseteq store

\* The same for the requests that issue no cleanup delete.
C38_KeepsAfterCheck ==
    (/\ pc \in Terminal
     /\ Has("search")
     /\ ~overwrite
     /\ ~Has("cleanup")) => PointsOf(store0, doc_id) \subseteq store

----------------------------------------------------------------------------
(* Failures before the embedding *)

\* The request failed in the extraction: pdfToPages threw, and embedChunks
\* was never called.
FailedInExtraction ==
    /\ pc = "failed"
    /\ Has("extract")
    /\ thrown # ""
    /\ ~Has("embed")

\* C39: an ingest request that fails in the extraction or the chunking, with
\* an error thrown before embedChunks is called, issues no delete and no
\* upsert, for either value of overwrite and whatever the error's message
\* is: the store is the same before and after the request.
C39_NoWriteBeforeEmbedding ==
    FailedInExtraction =>
        /\ \A c \in Mutating : ~Has(c)
        /\ store = store0

\* The same for the requests without overwrite.
C39_NoWriteWithoutOverwrite ==
    (FailedInExtraction /\ ~overwrite) =>
        /\ \A c \in Mutating : ~Has(c)
        /\ store = store0

\* The same for the messages with neither "storage" nor "upsert" in them.
C39_NoWriteOtherMessages ==
    (FailedInExtraction /\ ~NeedsEmergencyCleanup(thrown)) =>
        /\ \A c \in Mutating : ~Has(c)
        /\ store = store0

====
